---- MODULE Spec2Model ----
(***************************************************************************)
(* IndoGuide: the retrieval / reranking pipeline and the context formatter *)
(* (core/rag_system.py), the retrieval metrics, the judge's response       *)
(* parser and the rubric loop of the offline evaluation                    *)
(* (evaluate_batch.py), and the batch replay of recorded dialogues         *)
(* (batch_replay.py, llm_client.py), the batch job around it (main, the    *)
(* constructor, failing calls), the build of the vector store, the events  *)
(* of one streamed chat call and the means of the evaluation summary.      *)
(* Each part has its own specification.                                    *)
(*                                                                         *)
(* A mean that the code computes with statistics.mean is the record        *)
(* [kind, terms] of the terms it is taken over.                            *)
(* The text of a reranker response is a sequence of one-character strings, *)
(* parsed character by character; a formatted context and a judge response *)
(* are sequences of pieces (fixed strings of the template, field values,   *)
(* markers, JSON documents).  A float that the code computes as a quotient *)
(* of two integers is the record [num, den, exc].                          *)
(***************************************************************************)
EXTENDS Integers, Sequences, FiniteSets, TLC

(* ---------------- program constants (config/config.py) ----------------- *)
TOP_K_RETRIEVAL == 10
TOP_K_FINAL == 4
\* the k of process_batch_file's Recall@4 and nDCG@4 (evaluate_batch.py)
EVAL_K == 4

(* ------------------------- bounds of the model ------------------------- *)
\* size of the small knowledge base (the large one has TOP_K_RETRIEVAL + 1)
SmallKB == 2
\* number of distinct query embeddings
NumQueries == 2
\* number of comma-separated tokens in a reranker response
MaxTokens == 5
\* cross-encoder scores are drawn from 0..MaxScore
MaxScore == 1
\* snippet ids of a replay record are drawn from 1..MaxId
MaxId == 2
\* length of a retrieved list given to the metrics
MaxRetrieved == 5
\* length of a ground-truth list
MaxGroundTruth == 2
\* number of pieces of a judge response, code-fence markers not counted
MaxBody == 2
\* number of turns of an evaluated replay record
MaxEvalTurns == 2
\* number of dialogues of a replayed input file
MaxDialogues == 2
\* number of recorded turns of a dialogue
MaxTurns == 3

VARIABLES
    config,          \* RAGSystem.config
    knowledge_base,  \* RAGSystem.knowledge_base
    collection,      \* RAGSystem.collection: the metadatas of the Chroma collection
    pc,              \* "idle" | "returned": position of the caller of retrieve
    query,           \* the query of the last retrieve call
    results,         \* results['metadatas'][0] of the last store query
    scores,          \* the cross-encoder's scores of the last call
    response_text,   \* the reranking model's response of the last call
    snippets,        \* the list returned by the last retrieve call
    mpc,             \* "idle" | "called" | "scored": position of the metrics' caller
    turn,            \* the TurnResult of the replay record being scored
    retrieved,       \* argument retrieved of the metric functions
    ground_truth,    \* argument ground_truth of the metric functions
    k,               \* argument k of calculate_recall_at_k and calculate_ndcg_at_k
    recall,          \* value of calculate_recall_at_k
    mrr,             \* value of calculate_mrr
    ndcg,            \* value of calculate_ndcg_at_k
    fpc,             \* "idle" | "formatted" | "formatted_again": calls of format_context
    fmt_self,        \* config of the RAGSystem the last format_context call was made on
    fmt_input,       \* argument snippets of the last format_context call
    context,         \* text returned by the last format_context call
    prev_self,       \* fmt_self of the call before the last
    prev_input,      \* fmt_input of the call before the last
    prev_context,    \* context of the call before the last
    jpc,             \* "idle" | "parsed": position of the caller of parse_llm_json
    judge_body,      \* the judge's response without code-fence markers
    judge_wrap,      \* the code-fence markers around it
    judge_response,  \* argument response of parse_llm_json
    parsed,          \* what parse_llm_json returned or raised
    epc,             \* "evaluating" | "saved" | "aborted": position of process_batch_file
    eval_turns,      \* number of turns of the replay record being evaluated
    eval_t,          \* number of turns whose rubric loop has finished
    eval_m,          \* index in RUBRICS of the rubric to evaluate next
    eval_metrics,    \* eval_metrics: per rubric, the list of the ratings kept
    results_laaj,    \* len(results_laaj)
    judge_res,       \* res: the last value of evaluate_single_metric
    eval_error,      \* the exception that ended process_batch_file, or "none"
    judged,          \* per rubric: ratings given (n), of them above 0 (pos), their sum
    generation_quality,  \* summary["generation_quality"], per rubric
    files_written,   \* the output files written
    rpc,             \* "next_dialog" | "walking" | "saved": position of BatchReplay.run
    n_dialogues,     \* len(dialogues)
    dialog_i,        \* i: the number of the dialogue being replayed
    conversation_history,  \* dialog["turns"] of that dialogue
    idx,             \* idx, the index of the walk
    dialog_turns,    \* dialog_result["turns"]
    results_appended,  \* len(results["results"])
    llm_client,      \* BatchReplay.llm_client: previous_response_id and messages
    calls,           \* the retrieval calls and generation requests of the dialogue so far
    visited,         \* the indexes the walk has looked at in this dialogue
    entry,           \* "main": the command line of batch_replay | "constructor": BatchReplay(...).run()
    rag_config_key,  \* the strategy selector given to main or to BatchReplay
    rag_config_id,   \* BatchReplay.rag_config_id, 0 before construction
    input_exists,    \* whether the input corpus file exists
    printed,         \* the error messages printed by main
    exit_status,     \* the exit status of the process, -1 while it runs
    error,           \* the exception that ended the job, or "none"
    rerank_client,   \* RAGSystem.llm_client: previous_response_id and messages
    rerank_requests, \* the requests sent to the reranking model during the last retrieve
    spc,             \* "idle" | "returned" | "raised": the last RAGSystem.__init__
    store_exists,    \* whether the collection exists at the backing path
    store_entries,   \* the metadatas of the entries of that collection
    inits,           \* the number of initializations so far
    embed_calls,     \* the number of embedding calls for the knowledge base so far
    add_calls,       \* the number of collection.add calls so far
    cpc,             \* "idle" | "done" | "failed": the last chat_stream call
    stream_client,   \* the LLMClient chat_stream is called on
    client_before,   \* that client as it was before the call
    stream_message,  \* argument user_message of the call
    stream_events,   \* the events of the stream of the call
    auto_add,        \* argument auto_add_messages of the call
    stream_calls,    \* the number of chat_stream calls so far
    sum_pc,          \* "scoring" | "saved" | "aborted": position of process_batch_file
    record_turns,    \* the turns of the replay record, dialogue after dialogue
    scored,          \* the number of turns whose retrieval metrics are computed
    total_recall,    \* total_recall
    total_mrr,       \* total_mrr
    total_ndcg,      \* total_ndcg
    summary_retrieval  \* summary["retrieval"]

ragVars == <<config, knowledge_base, collection, pc, query, results, scores,
             response_text, snippets>>

metricVars == <<mpc, turn, retrieved, ground_truth, k, recall, mrr, ndcg>>

fmtVars == <<fpc, fmt_self, fmt_input, context, prev_self, prev_input, prev_context>>

\* the variables of the parts of the program other than retrieval and its metrics
judgeVars == <<jpc, judge_body, judge_wrap, judge_response, parsed>>

evalVars == <<epc, eval_turns, eval_t, eval_m, eval_metrics, results_laaj, judge_res,
              eval_error, judged, generation_quality, files_written>>

replayVars == <<rpc, n_dialogues, dialog_i, conversation_history, idx, dialog_turns,
                results_appended, llm_client, calls, visited>>

\* the batch job around BatchReplay.run
mainVars == <<entry, rag_config_key, rag_config_id, input_exists, printed, exit_status,
              error, rerank_client, rerank_requests>>

\* the vector store at CHROMA_DB_PATH and the calls that build it
storeVars == <<spc, store_exists, store_entries, inits, embed_calls, add_calls>>

\* one LLMClient and its chat_stream calls
streamVars == <<cpc, stream_client, client_before, stream_message, stream_events, auto_add,
                stream_calls>>

\* the groups other than the batch job's
\* the retrieval half of process_batch_file
summaryVars == <<sum_pc, record_turns, scored, total_recall, total_mrr, total_ndcg,
                 summary_retrieval>>

restVars == <<storeVars, streamVars, summaryVars>>

moreVars == <<mainVars, restVars>>

laterVars == <<fmtVars, judgeVars, evalVars, replayVars, moreVars>>

vars == <<ragVars, metricVars, laterVars>>

Min(a, b) == IF a < b THEN a ELSE b

(* ------------------------- str() and int() ----------------------------- *)
DigitChars == <<"0", "1", "2", "3", "4", "5", "6", "7", "8", "9">>

IsDigit(c) == \E d \in 1..10 : DigitChars[d] = c

DigitValue(c) == (CHOOSE d \in 1..10 : DigitChars[d] = c) - 1

\* str(n) of a non-negative int: its decimal digits
RECURSIVE Str(_)
Str(n) ==
    IF n < 10 THEN <<DigitChars[n + 1]>>
    ELSE Str(n \div 10) \o <<DigitChars[(n % 10) + 1]>>

\* int(s) of a string of decimal digits
RECURSIVE IntOf(_)
IntOf(s) ==
    IF s = <<>> THEN 0
    ELSE 10 * IntOf(SubSeq(s, 1, Len(s) - 1)) + DigitValue(s[Len(s)])

(* ------------------------- knowledge base ------------------------------ *)
\* one item of the knowledge-base JSON file
Snippet(i) ==
    [id |-> i, topic |-> <<"topic", i>>, title |-> <<"title", i>>,
     content |-> <<"content", i>>, source |-> <<"source", i>>]

KnowledgeBase(n) == [i \in 1..n |-> Snippet(i)]

KnowledgeBases == {KnowledgeBase(SmallKB), KnowledgeBase(TOP_K_RETRIEVAL + 1)}

\* the metadatas built by _initialize_vector_db: the id is stored as a string
BuildMetadatas(kb) ==
    [i \in 1..Len(kb) |->
        [id |-> Str(kb[i].id), topic |-> kb[i].topic, title |-> kb[i].title,
         content |-> kb[i].content, source |-> kb[i].source]]

SnippetOfSummary(metadata) ==
    [id |-> IntOf(metadata.id), topic |-> metadata.topic, title |-> metadata.title,
     content |-> <<"summary", IntOf(metadata.id)>>, source |-> metadata.source]

\* the snippet dict the three strategies build from a metadata
SnippetOf(metadata) ==
    [id |-> IntOf(metadata.id), topic |-> metadata.topic, title |-> metadata.title,
     content |-> metadata.content, source |-> metadata.source]

\* collection.query(query_embeddings=[e], n_results=n): the n nearest entries of
\* the collection, nearest first.  The distance of entry j to query embedding q is
\* (j - q) mod count: a total order without ties.
StoreQuery(coll, q, n) ==
    [j \in 1..Min(n, Len(coll)) |-> coll[((q - 1 + j - 1) % Len(coll)) + 1]]

Queries == 1..NumQueries

(* ------------------------- Baseline ------------------------------------ *)
retrieve_baseline_last(res) ==
    LET n == Min(TOP_K_FINAL, Len(res))
    IN  [i \in 1..n |-> SnippetOf(res[Len(res) - n + i])]

retrieve_baseline(res) ==
    [i \in 1..Min(TOP_K_FINAL, Len(res)) |-> SnippetOf(res[i])]

(* ------------------------- CrossEncoderRerank -------------------------- *)
\* sorted(zip(candidates, scores), key=lambda x: x[1], reverse=True) on the
\* positions 1..Len(sc): Python's sort is stable, also with reverse=True.
RECURSIVE InsertDesc(_, _, _)
InsertDesc(sorted, i, sc) ==
    IF sorted = <<>> THEN <<i>>
    ELSE IF sc[Head(sorted)] >= sc[i]
         THEN <<Head(sorted)>> \o InsertDesc(Tail(sorted), i, sc)
         ELSE <<i>> \o sorted

RECURSIVE InsertDescUnstable(_, _, _)
InsertDescUnstable(sorted, i, sc) ==
    IF sorted = <<>> THEN <<i>>
    ELSE IF sc[Head(sorted)] > sc[i]
         THEN <<Head(sorted)>> \o InsertDescUnstable(Tail(sorted), i, sc)
         ELSE <<i>> \o sorted

RECURSIVE SortedDescFrom(_, _, _)
SortedDescFrom(sorted, i, sc) ==
    IF i > Len(sc) THEN sorted
    ELSE SortedDescFrom(InsertDesc(sorted, i, sc), i + 1, sc)

RECURSIVE SortedDescUnstableFrom(_, _, _)
SortedDescUnstableFrom(sorted, i, sc) ==
    IF i > Len(sc) THEN sorted
    ELSE SortedDescUnstableFrom(InsertDescUnstable(sorted, i, sc), i + 1, sc)

ranked_candidates_unstable(sc) == SortedDescUnstableFrom(<<>>, 1, sc)

ranked_candidates(sc) == SortedDescFrom(<<>>, 1, sc)

retrieve_with_cross_encoder(res, sc) ==
    LET ranked == ranked_candidates(sc)
    IN  [i \in 1..Min(TOP_K_FINAL, Len(ranked)) |-> SnippetOf(res[ranked[i]])]

(* ------------------------- LLMRerank ----------------------------------- *)
\* re.findall(r'\d+', response): the maximal runs of digits, left to right
RECURSIVE FindAllDigits(_, _, _)
FindAllDigits(text, run, found) ==
    IF text = <<>> THEN (IF run = <<>> THEN found ELSE Append(found, run))
    ELSE IF IsDigit(Head(text))
         THEN FindAllDigits(Tail(text), Append(run, Head(text)), found)
         ELSE FindAllDigits(Tail(text), <<>>,
                            IF run = <<>> THEN found ELSE Append(found, run))

parse_llm_rerank_response_each_digit(response) ==
    LET digits == SelectSeq(response, IsDigit)
    IN  [i \in 1..Len(digits) |-> DigitValue(digits[i])]

parse_llm_rerank_response(response) ==
    LET numbers == FindAllDigits(response, <<>>, <<>>)
    IN  [i \in 1..Len(numbers) |-> IntOf(numbers[i])]

SeqIds(s) == {s[i].id : i \in 1..Len(s)}

\* for doc_id in ranked_ids[:TOP_K_FINAL]: if doc_id in id_to_candidate: append
RECURSIVE SelectRanked(_, _)
SelectRanked(ids, candidates) ==
    IF ids = <<>> THEN <<>>
    ELSE LET rest == SelectRanked(Tail(ids), candidates)
         IN  IF Head(ids) \in SeqIds(candidates)
             THEN <<CHOOSE j \in 1..Len(candidates) :
                       /\ candidates[j].id = Head(ids)
                       /\ \A l \in (j + 1)..Len(candidates) : candidates[l].id # Head(ids)>>
                  \o rest
             ELSE rest

\* the fill loop: for cand in candidates: if its id is not selected, append; break at TOP_K_FINAL
RECURSIVE FillRemaining(_, _, _)
FillRemaining(picked, j, candidates) ==
    IF j > Len(candidates) THEN picked
    ELSE IF candidates[j].id \notin {candidates[p].id : p \in {picked[x] : x \in 1..Len(picked)}}
         THEN LET more == Append(picked, j)
              IN  IF Len(more) >= TOP_K_FINAL THEN more
                  ELSE FillRemaining(more, j + 1, candidates)
         ELSE FillRemaining(picked, j + 1, candidates)

retrieve_with_llm_reranker(res, response) ==
    LET candidates == [i \in 1..Len(res) |-> SnippetOf(res[i])]
        ranked_ids == parse_llm_rerank_response(response)
        head       == SubSeq(ranked_ids, 1, Min(TOP_K_FINAL, Len(ranked_ids)))
        selected   == SelectRanked(head, candidates)
        filled     == IF Len(selected) < TOP_K_FINAL
                      THEN FillRemaining(selected, 1, candidates)
                      ELSE selected
    IN  [i \in 1..Len(filled) |-> candidates[filled[i]]]

(* ------------------------- reranker responses -------------------------- *)
\* the pieces a response text is made of: candidate ids, the id 12 of no
\* knowledge-base snippet, and the empty piece
Tokens == {<<"1">>, <<"2">>, <<"3">>, <<"1", "2">>, <<>>}

RECURSIVE JoinTokens(_)
JoinTokens(toks) ==
    IF toks = <<>> THEN <<>>
    ELSE IF Len(toks) = 1 THEN toks[1]
    ELSE toks[1] \o <<",">> \o JoinTokens(Tail(toks))

(* ------------------------- format_context ------------------------------ *)
\* The context is a sequence of pieces: a piece is a fixed string of the
\* template, <<"text", s>>, or the value of a snippet field.
Lit(s) == <<"text", s>>

CONTEXT_HEADER == Lit("=== RETRIEVED KNOWLEDGE BASE CONTEXT ===\n\n")

CONTEXT_FOOTER == Lit("=== END OF CONTEXT ===\n\n")

CONTEXT_INSTRUCTION == Lit("Use the above context to answer the user's question.\n")

\* f"{i}": the digits of i
LitDigits(i) == [j \in 1..Len(Str(i)) |-> Lit(Str(i)[j])]

\* the four lines the loop body appends for snippet s with number i
ContextBlock(i, s) ==
    <<Lit("[")>> \o LitDigits(i)
    \o <<Lit("] Topic: "), s.topic, Lit("\n"),
         Lit("    Title: "), s.title, Lit("\n"),
         Lit("    Content: "), s.content, Lit("\n"),
         Lit("    Source: "), s.source, Lit("\n\n")>>

RECURSIVE ContextBlocksCounting(_, _)
ContextBlocksCounting(snips, n) ==
    IF n = 0 THEN <<>>
    ELSE ContextBlocksCounting(snips, n - 1)
         \o ContextBlock(Len(fmt_input) + n, snips[n])

\* for i, snippet in enumerate(snippets, 1): the blocks of the first n snippets
RECURSIVE ContextBlocks(_, _)
ContextBlocks(snips, n) ==
    IF n = 0 THEN <<>>
    ELSE ContextBlocks(snips, n - 1) \o ContextBlock(n, snips[n])

format_context_unguarded(snips) ==
    <<CONTEXT_HEADER>> \o ContextBlocks(snips, Len(snips))
    \o <<CONTEXT_FOOTER, CONTEXT_INSTRUCTION>>

format_context(snips) ==
    IF snips = <<>> THEN <<>>
    ELSE <<CONTEXT_HEADER>> \o ContextBlocks(snips, Len(snips))
         \o <<CONTEXT_FOOTER, CONTEXT_INSTRUCTION>>

(* ------------------------- parse_llm_json ------------------------------ *)
\* A judge response is a sequence of pieces: the marker of three backticks
\* ("fence"), the word json that may follow it,
\* white space, a complete JSON document, or other text.  A JSON document is
\* the value json.loads makes of it: [type, rating_type, rating, reason], the
\* last three describing the keys "rating" and "reason" of an object.
JsonObject(rt, r, why) == [type |-> "object", rating_type |-> rt, rating |-> r, reason |-> why]

JsonOther(ty) == [type |-> ty, rating_type |-> "n/a", rating |-> 0, reason |-> ""]

NoDoc == JsonOther("none")

\* the ratings a judge gives
JudgeRatings == {0, 1, 2}

JudgeDocs ==
    {JsonObject("int", r, "judged") : r \in JudgeRatings}
    \cup {JsonObject("str", 0, "judged"), JsonObject("null", 0, "judged"),
          JsonObject("missing", 0, "judged")}
    \cup {JsonOther(ty) : ty \in {"array", "number", "string", "null"}}

Piece(kd, d) == [kind |-> kd, doc |-> d]

FENCE == <<Piece("fence", NoDoc)>>

FENCE_JSON == <<Piece("fence", NoDoc), Piece("json", NoDoc)>>

NEWLINE == <<Piece("space", NoDoc)>>

DocPiece(d) == Piece("doc", d)

\* the pieces of a response that carries no code-fence marker
BodyPieces == {Piece("space", NoDoc), Piece("text", NoDoc)} \cup {DocPiece(d) : d \in JudgeDocs}

\* str.strip()
RECURSIVE Strip(_)
Strip(s) ==
    IF s = <<>> THEN s
    ELSE IF s[1].kind = "space" THEN Strip(Tail(s))
    ELSE IF s[Len(s)].kind = "space" THEN Strip(SubSeq(s, 1, Len(s) - 1))
    ELSE s

\* str.startswith and str.endswith
StartsWith(s, prefix) == Len(s) >= Len(prefix) /\ SubSeq(s, 1, Len(prefix)) = prefix

EndsWith(s, suffix) ==
    Len(s) >= Len(suffix) /\ SubSeq(s, Len(s) - Len(suffix) + 1, Len(s)) = suffix

\* s[n:] and s[:-n], n counted in pieces
DropFirst(s, n) == SubSeq(s, n + 1, Len(s))

DropLast(s, n) == SubSeq(s, 1, Len(s) - n)

\* what a call returns: a value, or the exception raised instead
Value(v) == [exc |-> "none", value |-> v]

Raises(e) == [exc |-> e, value |-> NoDoc]

\* json.loads: one document, white space around it allowed
json_loads(s) ==
    LET doc == Strip(s)
    IN  IF Len(doc) = 1 /\ doc[1].kind = "doc" THEN Value(doc[1].doc)
        ELSE Raises("JSONDecodeError")

PARSE_FAILED == JsonObject("int", 0, "Failed to parse LLM response")

parse_llm_json_plain_first(response) ==
    LET stripped == Strip(response)
        opened == IF StartsWith(stripped, FENCE) THEN DropFirst(stripped, Len(FENCE))
                  ELSE IF StartsWith(stripped, FENCE_JSON)
                       THEN DropFirst(stripped, Len(FENCE_JSON))
                  ELSE stripped
        cleaned == IF EndsWith(opened, FENCE) THEN DropLast(opened, Len(FENCE))
                   ELSE opened
        loaded == json_loads(Strip(cleaned))
    IN  IF loaded.exc # "none" THEN Value(PARSE_FAILED) ELSE loaded

parse_llm_json(response) ==
    LET stripped == Strip(response)
        opened == IF StartsWith(stripped, FENCE_JSON)
                  THEN DropFirst(stripped, Len(FENCE_JSON))
                  ELSE IF StartsWith(stripped, FENCE) THEN DropFirst(stripped, Len(FENCE))
                  ELSE stripped
        cleaned == IF EndsWith(opened, FENCE) THEN DropLast(opened, Len(FENCE))
                   ELSE opened
        loaded == json_loads(Strip(cleaned))
    IN  IF loaded.exc # "none" THEN Value(PARSE_FAILED) ELSE loaded

(* ------------------------- the rubric loop ----------------------------- *)
RUBRICS == <<"factuality", "faithfulness", "helpfulness", "overall">>

CALL_FAILED == JsonObject("int", 0, "LLM call failed")

\* llm_client.chat returns the judge's text or raises
ChatReturns(text) == [kind |-> "text", text |-> text]

ChatRaises == [kind |-> "raise", text |-> <<>>]

\* evaluate_single_metric, from the outcome of its llm_client.chat call on
evaluate_single_metric(outcome) ==
    IF outcome.kind = "raise" THEN CALL_FAILED
    ELSE parse_llm_json(outcome.text).value

RatingAtLeastZero(r) ==
    IF r.type # "object" THEN "TypeError"
    ELSE IF r.rating_type = "missing" THEN "KeyError"
    ELSE IF r.rating_type # "int" THEN "TypeError"
    ELSE IF r.rating >= 0 THEN "True" ELSE "False"

\* res["rating"] > 0: "True", "False", or the exception raised
RatingAboveZero(r) ==
    IF r.type # "object" THEN "TypeError"
    ELSE IF r.rating_type = "missing" THEN "KeyError"
    ELSE IF r.rating_type # "int" THEN "TypeError"
    ELSE IF r.rating > 0 THEN "True" ELSE "False"

RECURSIVE SumSeq(_)
SumSeq(s) == IF s = <<>> THEN 0 ELSE Head(s) + SumSeq(Tail(s))

(* ------------------------- LLMClient ----------------------------------- *)
\* previous_response_id = None
NoId == <<>>

\* LLMClient.__init__
NewClient == [previous_response_id |-> NoId, messages |-> <<>>]

reset_conversation_messages_only(client) == [client EXCEPT !.messages = <<>>]

\* LLMClient.reset_conversation
reset_conversation(client) == [previous_response_id |-> NoId, messages |-> <<>>]

\* the events of one streamed response: its text deltas and, when the
\* response.completed event arrives, the id of the response
Stream(deltas, id) == [deltas |-> deltas, response_id |-> id]

RECURSIVE Concat(_)
Concat(texts) == IF texts = <<>> THEN <<>> ELSE Head(texts) \o Concat(Tail(texts))

\* the parameters chat_stream gives to responses.create; a previous_response_id
\* of NoId stands for a request without the key
RequestParams(client, user_message, system_prompt) ==
    [input |-> user_message, instructions |-> system_prompt,
     previous_response_id |-> client.previous_response_id]

\* the client after chat_stream(user_message, ..., auto_add_messages=True) has
\* run through stream
chat_stream(client, user_message, stream) ==
    [previous_response_id |->
         IF stream.response_id # NoId THEN stream.response_id
         ELSE client.previous_response_id,
     messages |-> client.messages
                  \o <<[role |-> "user", content |-> user_message],
                       [role |-> "assistant", content |-> Concat(stream.deltas)]>>]

(* ------------------------- BatchReplay.run ----------------------------- *)
Speakers == {"user", "assistant", "system"}

\* the j-th recorded turn (j from 0) of a dialogue, said by sp
RecordedTurn(j, sp) ==
    [speaker |-> sp, utterance |-> <<<<"utterance", j>>>>,
     utterance_ref |-> <<<<"reference", j>>>>,
     grounding_snippets |-> <<<<"grounding", j>>>>]

\* conversation_history[j], j from 0
TurnAt(history, j) == history[j + 1]

IsSpokenTurn(recorded) == recorded.speaker # "system"

\* speaker == "user"
IsUserTurn(recorded) == recorded.speaker = "user"

HasNextTurn(history, j) == j + 1 < Len(history)

\* idx + 1 < len(conversation_history) and the next turn is an assistant turn
HasGroundTruth(history, j) ==
    j + 1 < Len(history) /\ TurnAt(history, j + 1).speaker = "assistant"

AdvanceTwoAfterUser(history, j) ==
    IF IsUserTurn(TurnAt(history, j)) /\ HasNextTurn(history, j) THEN j + 2 ELSE j + 1

\* idx at the end of one pass of the while loop
Advance(history, j) ==
    IF IsUserTurn(TurnAt(history, j)) /\ HasGroundTruth(history, j) THEN j + 2 ELSE j + 1

\* rag_system.retrieve(user_utterance) and the prompt made of its context
RetrievedFor(utterance) == <<"retrieved for">> \o utterance

AugmentedPrompt(retrieved_snippets) == <<"context of">> \o retrieved_snippets

\* turn_result, the ground-truth keys included when the next turn is an
\* assistant turn
TurnResult(history, j, full_response) ==
    [turn_index |-> j,
     user_input |-> TurnAt(history, j).utterance,
     system_response |-> full_response,
     retrieved_snippets |-> RetrievedFor(TurnAt(history, j).utterance),
     has_ground_truth |-> HasGroundTruth(history, j),
     ground_truth_response |->
         IF HasGroundTruth(history, j) THEN TurnAt(history, j + 1).utterance_ref ELSE <<>>,
     ground_truth_snippets |->
         IF HasGroundTruth(history, j) THEN TurnAt(history, j + 1).grounding_snippets
         ELSE <<>>]

(* ------------------------- Python values ------------------------------- *)
\* a float computed as num / den, or the exception raised instead of a value
Float(n, d) == [num |-> n, den |-> d, exc |-> "none"]

Raised(e) == [num |-> 0, den |-> 1, exc |-> e]

\* a / b
Divide(a, b) == IF b = 0 THEN Raised("ZeroDivisionError") ELSE Float(a, b)

\* the values a ground_truth argument takes: None, or a list of snippet dicts
PyNone == [kind |-> "None", items |-> <<>>]

PyList(s) == [kind |-> "list", items |-> s]

TruthyUnlessEmptyList(v) == v # PyList(<<>>)

\* bool(v): None and the empty list are falsy
Truthy(v) == v.kind = "list" /\ v.items # <<>>

(* ------------------------- retrieval metrics --------------------------- *)
\* [str(r['id']) for r in retrieved[:n]]
StrIds(items, n) == [i \in 1..Min(n, Len(items)) |-> Str(items[i].id)]

\* {str(g['id']) for g in ground_truth}
StrIdSet(items) == {Str(items[i].id) : i \in 1..Len(items)}

calculate_recall_at_k(ret, gt, kk) ==
    IF ~Truthy(gt) THEN Float(0, 1)
    ELSE IF gt.kind # "list" THEN Raised("TypeError")
    ELSE LET retrieved_ids == StrIds(ret, kk)
             ground_truth_ids == StrIdSet(gt.items)
             hits == Cardinality({i \in 1..Len(retrieved_ids) :
                                     retrieved_ids[i] \in ground_truth_ids})
         IN  IF ground_truth_ids # {}
             THEN Divide(hits, Cardinality(ground_truth_ids))
             ELSE Float(0, 1)

\* for rank, rid in enumerate(retrieved_ids): if rid in ground_truth_ids: return 1.0 / (rank + 1)
RECURSIVE FirstHit(_, _, _)
FirstHit(retrieved_ids, ground_truth_ids, rank) ==
    IF rank >= Len(retrieved_ids) THEN Float(0, 1)
    ELSE IF retrieved_ids[rank + 1] \in ground_truth_ids THEN Divide(1, rank + 1)
    ELSE FirstHit(retrieved_ids, ground_truth_ids, rank + 1)

calculate_mrr_at_4(ret, gt) ==
    IF ~Truthy(gt) THEN Float(0, 1)
    ELSE IF gt.kind # "list" THEN Raised("TypeError")
    ELSE FirstHit(StrIds(ret, EVAL_K), StrIdSet(gt.items), 0)

calculate_mrr(ret, gt) ==
    IF ~Truthy(gt) THEN Float(0, 1)
    ELSE IF gt.kind # "list" THEN Raised("TypeError")
    ELSE FirstHit(StrIds(ret, Len(ret)), StrIdSet(gt.items), 0)

\* 1 / math.log2(i + 2) for i = 0, 1, ..., in millionths
Discount == <<1000000, 630930, 500000, 430677, 386853, 356207, 333333, 315465>>

\* the sum of rel / math.log2(i + 2) over the positions i < n, rel being 1.0 at
\* the positions of relevant and 0.0 elsewhere
RECURSIVE DiscountedSum(_, _)
DiscountedSum(relevant, n) ==
    IF n = 0 THEN 0
    ELSE DiscountedSum(relevant, n - 1) + (IF n \in relevant THEN Discount[n] ELSE 0)

calculate_ndcg_at_k_uncapped(ret, gt, kk) ==
    IF ~Truthy(gt) THEN Float(0, 1)
    ELSE IF gt.kind # "list" THEN Raised("TypeError")
    ELSE LET retrieved_ids == StrIds(ret, kk)
             ground_truth_ids == StrIdSet(gt.items)
             dcg == DiscountedSum({i \in 1..Len(retrieved_ids) :
                                      retrieved_ids[i] \in ground_truth_ids},
                                  Len(retrieved_ids))
             ideal == Cardinality(ground_truth_ids)
             idcg == DiscountedSum(1..ideal, ideal)
         IN  IF idcg > 0 THEN Divide(dcg, idcg) ELSE Float(0, 1)

calculate_ndcg_at_k(ret, gt, kk) ==
    IF ~Truthy(gt) THEN Float(0, 1)
    ELSE IF gt.kind # "list" THEN Raised("TypeError")
    ELSE LET retrieved_ids == StrIds(ret, kk)
             ground_truth_ids == StrIdSet(gt.items)
             dcg == DiscountedSum({i \in 1..Len(retrieved_ids) :
                                      retrieved_ids[i] \in ground_truth_ids},
                                  Len(retrieved_ids))
             ideal == Min(Cardinality(ground_truth_ids), kk)
             idcg == DiscountedSum(1..ideal, ideal)
         IN  IF idcg > 0 THEN Divide(dcg, idcg) ELSE Float(0, 1)

(* ------------------------- replay records ------------------------------ *)
RECURSIVE SeqsUpTo(_, _)
SeqsUpTo(S, n) ==
    IF n = 0 THEN {<<>>}
    ELSE SeqsUpTo(S, n - 1) \cup [1..n -> S]

\* the snippet dicts of a replay record, as far as the metrics read them
SnippetRefs == {[id |-> i] : i \in 1..MaxId}

RetrievedLists == SeqsUpTo(SnippetRefs, MaxRetrieved)

GroundTruthLists == SeqsUpTo(SnippetRefs, MaxGroundTruth)

\* a TurnResult: the key ground_truth_snippets is missing, null or a list
TurnResults ==
    [retrieved_snippets : RetrievedLists, gt_key : {"list"},
     ground_truth_snippets : GroundTruthLists]
    \cup [retrieved_snippets : RetrievedLists, gt_key : {"missing", "null"},
          ground_truth_snippets : {<<>>}]

NoTurn == [retrieved_snippets |-> <<>>, gt_key |-> "missing",
           ground_truth_snippets |-> <<>>]

\* turn.get("ground_truth_snippets", [])
GetGroundTruth(t) ==
    IF t.gt_key = "missing" THEN PyList(<<>>)
    ELSE IF t.gt_key = "null" THEN PyNone
    ELSE PyList(t.ground_truth_snippets)

MetricsIdle ==
    /\ mpc = "idle"
    /\ turn = NoTurn
    /\ retrieved = <<>>
    /\ ground_truth = PyList(<<>>)
    /\ k = 0
    /\ recall = Float(0, 1)
    /\ mrr = Float(0, 1)
    /\ ndcg = Float(0, 1)

RagIdle ==
    /\ pc = "idle"
    /\ query = 0
    /\ results = <<>>
    /\ scores = <<>>
    /\ response_text = <<>>
    /\ snippets = <<>>

FormatIdle ==
    /\ fpc = "idle"
    /\ fmt_self = 0
    /\ fmt_input = <<>>
    /\ context = <<>>
    /\ prev_self = 0
    /\ prev_input = <<>>
    /\ prev_context = <<>>

NoWrap == [marker |-> "none", newline |-> FALSE, outer |-> FALSE]

JudgeIdle ==
    /\ jpc = "idle"
    /\ judge_body = <<>>
    /\ judge_wrap = NoWrap
    /\ judge_response = <<>>
    /\ parsed = Value(NoDoc)

\* process_batch_file before its loop, on a record of n turns
EvalStart(n) ==
    /\ epc = "evaluating"
    /\ eval_turns = n
    /\ eval_t = 0
    /\ eval_m = 1
    /\ eval_metrics = [m \in 1..Len(RUBRICS) |-> <<>>]
    /\ results_laaj = 0
    /\ judge_res = NoDoc
    /\ eval_error = "none"
    /\ judged = [m \in 1..Len(RUBRICS) |-> [n |-> 0, pos |-> 0, sum |-> 0]]
    /\ generation_quality = [m \in 1..Len(RUBRICS) |-> [num |-> 0, den |-> 1, exc |-> "none"]]
    /\ files_written = {}

\* BatchReplay.run before its loop, n dialogues loaded
ReplayStart(n) ==
    /\ rpc = "next_dialog"
    /\ n_dialogues = n
    /\ dialog_i = 0
    /\ conversation_history = <<>>
    /\ idx = 0
    /\ dialog_turns = <<>>
    /\ results_appended = 0
    /\ llm_client = NewClient
    /\ calls = <<>>
    /\ visited = {}

\* no batch job is running
MainIdle ==
    /\ entry = "constructor"
    /\ rag_config_key = "baseline"
    /\ rag_config_id = 0
    /\ input_exists = TRUE
    /\ printed = <<>>
    /\ exit_status = -1
    /\ error = "none"
    /\ rerank_client = NewClient
    /\ rerank_requests = <<>>

\* no RAGSystem has been constructed and there is no collection
StoreIdle ==
    /\ spc = "idle"
    /\ store_exists = FALSE
    /\ store_entries = <<>>
    /\ inits = 0
    /\ embed_calls = 0
    /\ add_calls = 0

\* a new LLMClient, no call yet
StreamIdle ==
    /\ cpc = "idle"
    /\ stream_client = NewClient
    /\ client_before = NewClient
    /\ stream_message = <<>>
    /\ stream_events = <<>>
    /\ auto_add = TRUE
    /\ stream_calls = 0

\* the summary of a record that is not there: no turn, nothing saved
NoSummary == [mean_recall_at_4 |-> [kind |-> "none", terms |-> <<>>],
              mean_mrr |-> [kind |-> "none", terms |-> <<>>],
              mean_ndcg_at_4 |-> [kind |-> "none", terms |-> <<>>]]

SummaryIdle ==
    /\ sum_pc = "scoring"
    /\ record_turns = <<>>
    /\ scored = 0
    /\ total_recall = <<>>
    /\ total_mrr = <<>>
    /\ total_ndcg = <<>>
    /\ summary_retrieval = NoSummary

MoreIdle == MainIdle /\ StoreIdle /\ StreamIdle /\ SummaryIdle

LaterIdle == FormatIdle /\ JudgeIdle /\ EvalStart(0) /\ ReplayStart(0) /\ MoreIdle

(* ------------------------- the state machine --------------------------- *)
Init ==
    /\ config \in {1, 2, 3}
    /\ knowledge_base \in KnowledgeBases
    /\ collection = BuildMetadatas(knowledge_base)
    /\ RagIdle
    /\ MetricsIdle
    /\ LaterIdle

RetrieveBaseline ==
    /\ pc = "idle"
    /\ config = 1
    /\ \E q \in Queries :
        /\ query' = q
        /\ results' = StoreQuery(collection, q, TOP_K_RETRIEVAL)
        /\ snippets' = retrieve_baseline(results')
    /\ pc' = "returned"
    /\ UNCHANGED <<config, knowledge_base, collection, scores, response_text, metricVars, laterVars>>

RetrieveCrossEncoder ==
    /\ pc = "idle"
    /\ config = 2
    /\ \E q \in Queries :
        /\ query' = q
        /\ results' = StoreQuery(collection, q, TOP_K_RETRIEVAL)
        /\ \E sc \in [1..Len(results') -> 0..MaxScore] :
            /\ scores' = sc
            /\ snippets' = retrieve_with_cross_encoder(results', sc)
    /\ pc' = "returned"
    /\ UNCHANGED <<config, knowledge_base, collection, response_text, metricVars, laterVars>>

RetrieveLLM ==
    /\ pc = "idle"
    /\ config = 3
    /\ \E q \in Queries :
        /\ query' = q
        /\ results' = StoreQuery(collection, q, TOP_K_RETRIEVAL)
        /\ \E n \in 0..MaxTokens : \E toks \in [1..n -> Tokens] :
            /\ response_text' = JoinTokens(toks)
            /\ snippets' = retrieve_with_llm_reranker(results', response_text')
    /\ pc' = "returned"
    /\ UNCHANGED <<config, knowledge_base, collection, scores, metricVars, laterVars>>

\* the caller takes the list; the RAGSystem is ready for the next query
Return ==
    /\ pc = "returned"
    /\ pc' = "idle"
    /\ query' = 0
    /\ results' = <<>>
    /\ scores' = <<>>
    /\ response_text' = <<>>
    /\ snippets' = <<>>
    /\ UNCHANGED <<config, knowledge_base, collection, metricVars, laterVars>>

Next ==
    \/ RetrieveBaseline
    \/ RetrieveCrossEncoder
    \/ RetrieveLLM
    \/ Return

Spec == Init /\ [][Next]_vars

(* ------------------- the evaluation's retrieval metrics ---------------- *)
\* evaluate_batch.py builds no RAGSystem
MetricsInit ==
    /\ config = 1
    /\ knowledge_base = <<>>
    /\ collection = <<>>
    /\ RagIdle
    /\ MetricsIdle
    /\ LaterIdle

\* process_batch_file, the retrieval metrics of one turn of the replay record
ScoreTurn ==
    /\ mpc = "idle"
    /\ \E t \in TurnResults :
        /\ turn' = t
        /\ retrieved' = t.retrieved_snippets
        /\ ground_truth' = GetGroundTruth(t)
    /\ k' = EVAL_K
    /\ recall' = calculate_recall_at_k(retrieved', ground_truth', EVAL_K)
    /\ mrr' = calculate_mrr(retrieved', ground_truth')
    /\ ndcg' = calculate_ndcg_at_k(retrieved', ground_truth', EVAL_K)
    /\ mpc' = "scored"
    /\ UNCHANGED <<ragVars, laterVars>>

\* a call of the three metric functions with any k
CallMetrics ==
    /\ mpc = "idle"
    /\ \E ret \in RetrievedLists, gt \in {PyNone} \cup {PyList(g) : g \in GroundTruthLists},
          kk \in 1..EVAL_K :
        /\ retrieved' = ret
        /\ ground_truth' = gt
        /\ k' = kk
        /\ recall' = calculate_recall_at_k(ret, gt, kk)
        /\ mrr' = calculate_mrr(ret, gt)
        /\ ndcg' = calculate_ndcg_at_k(ret, gt, kk)
    /\ mpc' = "called"
    /\ UNCHANGED <<turn, ragVars, laterVars>>

MetricsReturn ==
    /\ mpc # "idle"
    /\ mpc' = "idle"
    /\ turn' = NoTurn
    /\ retrieved' = <<>>
    /\ ground_truth' = PyList(<<>>)
    /\ k' = 0
    /\ recall' = Float(0, 1)
    /\ mrr' = Float(0, 1)
    /\ ndcg' = Float(0, 1)
    /\ UNCHANGED <<ragVars, laterVars>>

MetricsNext ==
    \/ ScoreTurn
    \/ CallMetrics
    \/ MetricsReturn

SpecMetrics == MetricsInit /\ [][MetricsNext]_vars

(* ------------------- calculate_ndcg_at_k on its own -------------------- *)
\* retrieved snippets carry an id of the ground truth's range or the foreign id 9
NdcgRefs == {[id |-> i] : i \in (1..MaxId) \cup {9}}

\* retrieve returns at most TOP_K_FINAL snippets
NdcgRetrievedLists == SeqsUpTo(NdcgRefs, TOP_K_FINAL)

\* a call of calculate_ndcg_at_k with any k
CallNdcg ==
    /\ mpc = "idle"
    /\ \E ret \in NdcgRetrievedLists, gt \in GroundTruthLists, kk \in 1..EVAL_K :
        /\ retrieved' = ret
        /\ ground_truth' = PyList(gt)
        /\ k' = kk
        /\ ndcg' = calculate_ndcg_at_k(ret, PyList(gt), kk)
    /\ mpc' = "ndcg"
    /\ UNCHANGED <<turn, recall, mrr, ragVars, laterVars>>

NdcgNext ==
    \/ CallNdcg
    \/ MetricsReturn

SpecNdcg == MetricsInit /\ [][NdcgNext]_vars

(* ======================= claims on retrieve ============================ *)
Ids(s) == [i \in 1..Len(s) |-> s[i].id]

NoDuplicates(s) == \A i, j \in 1..Len(s) : s[i] = s[j] => i = j

\* the candidates of the last call, in the store's similarity order
Candidates == [i \in 1..Len(results) |-> SnippetOf(results[i])]

IsCandidateId(n) == \E i \in 1..Len(results) : IntOf(results[i].id) = n

\* the integers of the response that are candidate ids, in response order
ValidIds == SelectSeq(parse_llm_rerank_response(response_text), IsCandidateId)

\* s without the repetitions of an element after its first occurrence
RECURSIVE FirstOccurrences(_)
FirstOccurrences(s) ==
    IF s = <<>> THEN <<>>
    ELSE LET init == SubSeq(s, 1, Len(s) - 1)
             last == s[Len(s)]
         IN  IF \E i \in 1..Len(init) : init[i] = last
             THEN FirstOccurrences(init)
             ELSE Append(FirstOccurrences(init), last)

Prefix(s, n) == SubSeq(s, 1, Min(n, Len(s)))

LLMReturned == pc = "returned" /\ config = 3

\* C1: under LLMRerank, for every response text, the returned list has exactly
\* min(TOP_K_FINAL, number of initial candidates) entries.
C1_LLMRerankExactLength ==
    LLMReturned => Len(snippets) = Min(TOP_K_FINAL, Len(results))

\* C2: the list returned by retrieve holds no two snippets with the same id,
\* under each strategy and for every response text of the reranking model.
C2_NoDuplicateIds ==
    pc = "returned" => NoDuplicates(Ids(snippets))

\* C3: under LLMRerank the first TOP_K_FINAL valid ids of the response, in
\* response order, are the leading entries of the returned list, also when
\* unknown integers come before them in the response.
C3_FirstValidIdsLead ==
    LLMReturned =>
        LET lead == Prefix(ValidIds, TOP_K_FINAL)
        IN  /\ Len(snippets) >= Len(lead)
            /\ \A i \in 1..Len(lead) : snippets[i].id = lead[i]

\* C4: under LLMRerank, when the response names m < TOP_K_FINAL valid candidate
\* ids (anywhere among its integers), the returned list is those m candidates in
\* judge order, then the first TOP_K_FINAL - m of the other candidates in their
\* pre-rerank order.
C4_FallbackFill ==
    LLMReturned =>
        LET chosen == FirstOccurrences(ValidIds)
            others == SelectSeq(Ids(Candidates),
                                LAMBDA n : \A i \in 1..Len(chosen) : chosen[i] # n)
        IN  Len(chosen) < TOP_K_FINAL =>
                Ids(snippets) = chosen \o Prefix(others, TOP_K_FINAL - Len(chosen))

\* C5: Baseline returns the first TOP_K_FINAL entries of the store's result, in
\* the store's order and unchanged; with at least TOP_K_FINAL snippets in the
\* store these are exactly TOP_K_FINAL entries with pairwise distinct ids.
C5_BaselineTruncates ==
    (pc = "returned" /\ config = 1) =>
        /\ snippets = Prefix(Candidates, TOP_K_FINAL)
        /\ \A i \in 1..Len(snippets) :
              \E j \in 1..Len(knowledge_base) :
                  knowledge_base[j] = snippets[i] /\ collection[j] = results[i]
        /\ Len(results) = Min(TOP_K_RETRIEVAL, Len(collection))
        /\ Len(collection) >= TOP_K_FINAL =>
              (Len(snippets) = TOP_K_FINAL /\ NoDuplicates(Ids(snippets)))

\* a Baseline call on a store of more than TOP_K_RETRIEVAL snippets, asked with a
\* query whose nearest snippet is not the first of the knowledge base
C5_Witness ==
    /\ pc = "returned" /\ config = 1
    /\ Len(collection) > TOP_K_RETRIEVAL
    /\ Len(results) = TOP_K_RETRIEVAL
    /\ Len(snippets) = TOP_K_FINAL
    /\ snippets[1].id # knowledge_base[1].id

\* the place of candidate i in the descending stable order of the scores
StableRank(i) ==
    1 + Cardinality({j \in 1..Len(scores) :
                        scores[j] > scores[i] \/ (scores[j] = scores[i] /\ j < i)})

\* C6: CrossEncoderRerank returns the TOP_K_FINAL candidates of highest score in
\* descending score order, candidates of equal score in the order of the initial
\* similarity retrieval.
C6_CrossEncoderStableTop ==
    (pc = "returned" /\ config = 2) =>
        /\ Len(snippets) = Min(TOP_K_FINAL, Len(results))
        /\ \A i \in 1..Len(results) :
              StableRank(i) <= Len(snippets) => snippets[StableRank(i)] = Candidates[i]

\* a CrossEncoderRerank call in which two returned candidates have equal scores
\* and a candidate of lower score, earlier in the similarity order, is left out
C6_Witness ==
    /\ pc = "returned" /\ config = 2
    /\ Len(results) = TOP_K_RETRIEVAL
    /\ \E i, j \in 1..Len(results) :
          /\ i < j /\ scores[i] = scores[j]
          /\ StableRank(j) <= TOP_K_FINAL
    /\ \E i, j \in 1..Len(results) :
          /\ i < j /\ scores[i] < scores[j]
          /\ StableRank(i) > TOP_K_FINAL /\ StableRank(j) <= TOP_K_FINAL

(* ======================= claims on the metrics ========================= *)
Measured == mpc # "idle"

\* the ground truth given to the metrics is a list with at least one entry
NonEmptyGroundTruth == ground_truth.kind = "list" /\ ground_truth.items # <<>>

GroundTruthIds == {ground_truth.items[i].id : i \in 1..Len(ground_truth.items)}

\* the ids of retrieved[:k]
TopKIds == {retrieved[i].id : i \in 1..Min(k, Len(retrieved))}

\* the positions (from 1) of the items of the whole retrieved list that are relevant
RelevantPositions == {i \in 1..Len(retrieved) : retrieved[i].id \in GroundTruthIds}

SetMin(S) == CHOOSE x \in S : \A y \in S : x <= y

\* C7: for every non-empty ground truth and every retrieved list, with or
\* without repeated ids, Recall@K is a value in [0, 1].
C7_RecallInUnitInterval ==
    (Measured /\ NonEmptyGroundTruth) =>
        /\ recall.exc = "none"
        /\ 0 <= recall.num /\ recall.num <= recall.den

\* C8: Recall@K is |ids(retrieved[:k]) \cap ids(ground_truth)| / |ids(ground_truth)|.
C8_RecallIsSetRatio ==
    (Measured /\ NonEmptyGroundTruth) =>
        /\ recall.exc = "none"
        /\ recall.num * Cardinality(GroundTruthIds)
              = Cardinality(TopKIds \cap GroundTruthIds) * recall.den

\* C9: with an empty ground truth list, a null one or a TurnResult without the
\* key, Recall@K, MRR and nDCG@K are 0.0 for every retrieved list and every k,
\* and nothing is raised.
C9_ZeroWithoutGroundTruth ==
    /\ (Measured /\ ~NonEmptyGroundTruth) =>
          (recall = Float(0, 1) /\ mrr = Float(0, 1) /\ ndcg = Float(0, 1))
    /\ (mpc = "scored" /\ turn.gt_key \in {"missing", "null"}) =>
          (~NonEmptyGroundTruth /\ recall.exc = "none" /\ mrr.exc = "none"
           /\ ndcg.exc = "none")

\* a TurnResult with ground_truth_snippets null and a non-empty retrieved list
C9_Witness ==
    /\ mpc = "scored"
    /\ turn.gt_key = "null"
    /\ ground_truth = PyNone
    /\ Len(retrieved) = EVAL_K

\* C10: MRR is 1/(p+1), p the 0-indexed position of the first item of the whole
\* retrieved list whose id is in the ground truth, and 0.0 when there is none.
C10_MrrFirstHit ==
    (Measured /\ NonEmptyGroundTruth) =>
        IF RelevantPositions = {} THEN mrr = Float(0, 1)
        ELSE mrr = Float(1, SetMin(RelevantPositions))

\* the first relevant item lies beyond position k, and one lies at position 2
C10_Witness ==
    /\ Measured /\ NonEmptyGroundTruth
    /\ RelevantPositions # {}
    /\ SetMin(RelevantPositions) > EVAL_K
    /\ k = EVAL_K
    /\ mrr = Float(1, EVAL_K + 1)

(* ================== claims on calculate_ndcg_at_k ====================== *)
RECURSIVE SumDiscount(_)
SumDiscount(S) ==
    IF S = {} THEN 0
    ELSE LET i == CHOOSE x \in S : TRUE IN Discount[i] + SumDiscount(S \ {i})

\* the positions (from 1) of retrieved[:k] that hold a relevant item
RelevantTopK == {i \in 1..Min(k, Len(retrieved)) : retrieved[i].id \in GroundTruthIds}

NdcgCalled == mpc = "ndcg" /\ NonEmptyGroundTruth

\* C11: nDCG@K is DCG / IDCG with gain 1 for a relevant item, discount
\* 1 / log2(position + 2) over retrieved[:k], and IDCG the DCG of
\* min(|ground-truth ids|, k) relevant items placed first; it is 1.0 when the
\* relevant items hold the first positions (k = 4, ground truth {1, 2},
\* retrieved 1, 2, 9, 9) and strictly between 0 and 1 when an irrelevant item
\* precedes them (retrieved 9, 1, 2, 9).
C11_NdcgIsDcgOverIdcg ==
    NdcgCalled =>
        /\ ndcg.exc = "none"
        /\ ndcg.num = SumDiscount(RelevantTopK)
        /\ ndcg.den = SumDiscount(1..Min(Cardinality(GroundTruthIds), k))
        /\ (RelevantTopK = 1..Min(Cardinality(GroundTruthIds), k)) => ndcg.num = ndcg.den
        /\ (k = 4 /\ GroundTruthIds = {1, 2} /\ Ids(retrieved) = <<1, 2, 9, 9>>)
              => ndcg.num = ndcg.den
        /\ (k = 4 /\ GroundTruthIds = {1, 2} /\ Ids(retrieved) = <<9, 1, 2, 9>>)
              => (0 < ndcg.num /\ ndcg.num < ndcg.den)

\* the relevant items 1 and 2 retrieved behind the irrelevant item 9
C11_Witness ==
    /\ NdcgCalled
    /\ k = 4
    /\ GroundTruthIds = {1, 2}
    /\ Ids(retrieved) = <<9, 1, 2, 9>>
    /\ 0 < ndcg.num /\ ndcg.num < ndcg.den

\* the relevant items 1 and 2 retrieved first
C11_WitnessFirst ==
    /\ NdcgCalled
    /\ k = 4
    /\ GroundTruthIds = {1, 2}
    /\ Ids(retrieved) = <<1, 2, 9, 9>>
    /\ ndcg = Float(1630930, 1630930)

(* ------------------- format_context, call after call ------------------- *)
\* the lists retrieve returns: up to TOP_K_FINAL snippets, repeated ones included
FormatInputs == SeqsUpTo({Snippet(i) : i \in 1..MaxId}, TOP_K_FINAL)

FormatInit ==
    /\ config = 1
    /\ knowledge_base = <<>>
    /\ collection = <<>>
    /\ RagIdle
    /\ MetricsIdle
    /\ LaterIdle

\* a call of format_context on the RAGSystem of configuration c
FormatContext ==
    /\ fpc # "formatted_again"
    /\ \E c \in {1, 2, 3}, snips \in FormatInputs :
        /\ fmt_self' = c
        /\ fmt_input' = snips
        /\ context' = format_context(snips)
    /\ prev_self' = fmt_self
    /\ prev_input' = fmt_input
    /\ prev_context' = context
    /\ fpc' = IF fpc = "idle" THEN "formatted" ELSE "formatted_again"
    /\ UNCHANGED <<ragVars, metricVars, judgeVars, evalVars, replayVars, moreVars>>

\* the two recorded calls are forgotten
FormatReturn ==
    /\ fpc = "formatted_again"
    /\ fpc' = "idle"
    /\ fmt_self' = 0
    /\ fmt_input' = <<>>
    /\ context' = <<>>
    /\ prev_self' = 0
    /\ prev_input' = <<>>
    /\ prev_context' = <<>>
    /\ UNCHANGED <<ragVars, metricVars, judgeVars, evalVars, replayVars, moreVars>>

FormatNext ==
    \/ FormatContext
    \/ FormatReturn

SpecFormat == FormatInit /\ [][FormatNext]_vars

(* ===================== claims on format_context ====================== *)
Formatted == fpc # "idle"

\* C12: format_context returns the empty text for an empty list (no header, no
\* footer, no instruction) and, for every non-empty list, a non-empty text that
\* begins with the header marker and ends with the footer marker followed by
\* the fixed instruction line.
C12_EmptyOrFramed ==
    Formatted =>
        IF fmt_input = <<>> THEN context = <<>>
        ELSE /\ Len(context) >= 3
             /\ context[1] = CONTEXT_HEADER
             /\ context[Len(context) - 1] = CONTEXT_FOOTER
             /\ context[Len(context)] = CONTEXT_INSTRUCTION

\* an empty list formatted right after a non-empty one
C12_Witness ==
    /\ fpc = "formatted_again"
    /\ prev_input # <<>>
    /\ prev_context # <<>>
    /\ fmt_input = <<>>
    /\ context = <<>>

\* the positions of the context at which a block opens
BlockStarts == {j \in 1..Len(context) : context[j] = Lit("[")}

\* the n-th of the positions starts
NthStart(starts, n) == CHOOSE p \in starts : Cardinality({q \in starts : q < p}) = n - 1

\* the pieces of the n-th block: up to the next block, or up to the footer
NthBlock(starts, n) ==
    SubSeq(context, NthStart(starts, n),
           IF n < Cardinality(starts) THEN NthStart(starts, n + 1) - 1
           ELSE Len(context) - 2)

IsFieldValue(piece) == piece[1] # "text"

FieldsOf(s) == <<s.topic, s.title, s.content, s.source>>

\* C13: format_context emits exactly one block per snippet, in rank order,
\* numbered 1..n, each block holding that snippet's topic, title, content and
\* source in that order; the text depends on the list alone: two calls with
\* equal lists, on any RAGSystem and after any earlier calls, return the same.
C13_OneBlockPerSnippet ==
    Formatted =>
        /\ LET starts == BlockStarts
           IN  /\ Cardinality(starts) = Len(fmt_input)
               /\ \A n \in 1..Len(fmt_input) :
                     LET block == NthBlock(starts, n)
                     IN  /\ SubSeq(block, 2, 1 + Len(Str(n))) = LitDigits(n)
                         /\ block[2 + Len(Str(n))] = Lit("] Topic: ")
                         /\ SelectSeq(block, IsFieldValue) = FieldsOf(fmt_input[n])
        /\ (fpc = "formatted_again" /\ prev_input = fmt_input) => prev_context = context

\* the same two snippets formatted twice in a row, on two different RAGSystems
C13_Witness ==
    /\ fpc = "formatted_again"
    /\ prev_self # fmt_self
    /\ prev_input = fmt_input
    /\ Len(fmt_input) = 2
    /\ fmt_input[1] # fmt_input[2]
    /\ prev_context = context

(* ------------------- parse_llm_json on its own ------------------------- *)
\* the judge's responses without markers: up to MaxBody pieces
Bodies == SeqsUpTo(BodyPieces, MaxBody)

\* the marker, alone or followed by json, before and the marker after, with or
\* without line breaks inside and
\* white space outside
Wrappers == {NoWrap} \cup [marker : {"fence", "fence_json"}, newline : BOOLEAN, outer : BOOLEAN]

Wrap(body, w) ==
    IF w.marker = "none" THEN body
    ELSE (IF w.outer THEN NEWLINE ELSE <<>>)
         \o (IF w.marker = "fence_json" THEN FENCE_JSON ELSE FENCE)
         \o (IF w.newline THEN NEWLINE ELSE <<>>)
         \o body
         \o (IF w.newline THEN NEWLINE ELSE <<>>)
         \o FENCE
         \o (IF w.outer THEN NEWLINE ELSE <<>>)

JudgeInit ==
    /\ config = 1
    /\ knowledge_base = <<>>
    /\ collection = <<>>
    /\ RagIdle
    /\ MetricsIdle
    /\ LaterIdle

\* a call of parse_llm_json
ParseResponse ==
    /\ jpc = "idle"
    /\ \E body \in Bodies, w \in Wrappers :
        /\ judge_body' = body
        /\ judge_wrap' = w
        /\ judge_response' = Wrap(body, w)
        /\ parsed' = parse_llm_json(Wrap(body, w))
    /\ jpc' = "parsed"
    /\ UNCHANGED <<ragVars, metricVars, fmtVars, evalVars, replayVars, moreVars>>

ParseReturn ==
    /\ jpc = "parsed"
    /\ jpc' = "idle"
    /\ judge_body' = <<>>
    /\ judge_wrap' = NoWrap
    /\ judge_response' = <<>>
    /\ parsed' = Value(NoDoc)
    /\ UNCHANGED <<ragVars, metricVars, fmtVars, evalVars, replayVars, moreVars>>

JudgeNext ==
    \/ ParseResponse
    \/ ParseReturn

SpecJudge == JudgeInit /\ [][JudgeNext]_vars

(* ===================== claims on parse_llm_json ====================== *)
\* the body is one JSON document, white space around it allowed
IsJson(body) ==
    \E i \in 1..Len(body) :
        /\ body[i].kind = "doc"
        /\ \A j \in 1..Len(body) : j # i => body[j].kind = "space"

TheDocument(body) == (CHOOSE i \in 1..Len(body) : body[i].kind = "doc")

\* C14: a judge response wrapped in code-fence markers (three backticks, alone
\* or followed by json, with the closing three backticks) parses to the value the response without the markers
\* parses to, and a response that is not JSON yields
\* {rating: 0, reason: "Failed to parse LLM response"}; nothing is raised.
C14_FencedParsesAlike ==
    jpc = "parsed" =>
        /\ parsed.exc = "none"
        /\ parsed = parse_llm_json(judge_body)
        /\ IsJson(judge_body) => parsed.value = judge_body[TheDocument(judge_body)].doc
        /\ ~IsJson(judge_body) => parsed.value = PARSE_FAILED

\* a rated object between the json marker and the closing marker, each on a
\* line of its own
C14_Witness ==
    /\ jpc = "parsed"
    /\ judge_wrap = [marker |-> "fence_json", newline |-> TRUE, outer |-> FALSE]
    /\ judge_body = <<DocPiece(JsonObject("int", 2, "judged"))>>
    /\ parsed = Value(JsonObject("int", 2, "judged"))

\* text that is not JSON between two plain markers
C14_WitnessNotJson ==
    /\ jpc = "parsed"
    /\ judge_wrap.marker = "fence"
    /\ judge_body = <<Piece("text", NoDoc)>>
    /\ parsed = Value(PARSE_FAILED)

(* ------------------- process_batch_file: the rubric loop --------------- *)
\* the judge's answers: every JSON document, text that is not JSON, a rated
\* object inside code-fence markers, or a failed call
JudgeOutcomes ==
    {ChatReturns(<<DocPiece(d)>>) : d \in JudgeDocs}
    \cup {ChatReturns(<<Piece("text", NoDoc)>>),
          ChatReturns(Wrap(<<DocPiece(JsonObject("int", 1, "judged"))>>,
                           [marker |-> "fence_json", newline |-> TRUE, outer |-> FALSE])),
          ChatRaises}

\* mean(v) if v else 0
MeanOrZero(v) == IF v # <<>> THEN Divide(SumSeq(v), Len(v)) ELSE Float(0, 1)

EvalInit ==
    /\ config = 1
    /\ knowledge_base = <<>>
    /\ collection = <<>>
    /\ RagIdle
    /\ MetricsIdle
    /\ FormatIdle
    /\ JudgeIdle
    /\ ReplayStart(0)
    /\ MoreIdle
    /\ \E n \in 0..MaxEvalTurns : EvalStart(n)

\* one pass of the loop over the rubrics: the judge is asked, res is stored in
\* turn_laaj, and a rating above 0 is appended to the rubric's list
EvaluateMetric ==
    /\ epc = "evaluating"
    /\ eval_t < eval_turns
    /\ \E outcome \in JudgeOutcomes :
        LET r == evaluate_single_metric(outcome)
            above == RatingAboveZero(r)
            last == eval_m = Len(RUBRICS)
        IN  /\ judge_res' = r
            /\ IF above \in {"True", "False"}
               THEN /\ eval_metrics' = [eval_metrics EXCEPT ![eval_m] =
                                           IF above = "True" THEN Append(@, r.rating) ELSE @]
                    /\ judged' = [judged EXCEPT ![eval_m] =
                                    [n |-> @.n + 1,
                                     pos |-> @.pos + (IF r.rating > 0 THEN 1 ELSE 0),
                                     sum |-> @.sum + r.rating]]
                    /\ eval_m' = IF last THEN 1 ELSE eval_m + 1
                    /\ eval_t' = IF last THEN eval_t + 1 ELSE eval_t
                    /\ results_laaj' = IF last THEN results_laaj + 1 ELSE results_laaj
                    /\ UNCHANGED <<epc, eval_error>>
               ELSE /\ epc' = "aborted"
                    /\ eval_error' = above
                    /\ UNCHANGED <<eval_metrics, judged, eval_m, eval_t, results_laaj>>
    /\ UNCHANGED <<eval_turns, generation_quality, files_written>>
    /\ UNCHANGED <<ragVars, metricVars, fmtVars, judgeVars, replayVars, moreVars>>

\* after the loops: the summary is aggregated and both files are written
SaveEvaluation ==
    /\ epc = "evaluating"
    /\ eval_t = eval_turns
    /\ generation_quality' = [m \in 1..Len(RUBRICS) |-> MeanOrZero(eval_metrics[m])]
    /\ files_written' = {"laaj", "eval"}
    /\ epc' = "saved"
    /\ UNCHANGED <<eval_turns, eval_t, eval_m, eval_metrics, results_laaj, judge_res,
                   eval_error, judged>>
    /\ UNCHANGED <<ragVars, metricVars, fmtVars, judgeVars, replayVars, moreVars>>

EvalNext ==
    \/ EvaluateMetric
    \/ SaveEvaluation

SpecEval == EvalInit /\ [][EvalNext]_vars

(* ===================== claims on the rubric loop ===================== *)
\* C15: a single malformed judge response never aborts the evaluation run: for
\* every judge response text, valid JSON that is no object, an object without
\* rating and a rating that is no integer included, process_batch_file goes on
\* to evaluate every remaining rubric and turn and writes both output files.
C15_MalformedNeverAborts ==
    /\ epc # "aborted"
    /\ epc = "saved" => (files_written = {"laaj", "eval"} /\ results_laaj = eval_turns)

\* C16 as claimed: in the summary the mean rating of each rubric is the mean
\* over the ratings of all evaluated turns, a rating of 0 counted as a score.
C16_MeanOverAllRatings ==
    epc = "saved" =>
        \A m \in 1..Len(RUBRICS) :
            judged[m].n > 0 =>
                generation_quality[m].num * judged[m].n
                    = judged[m].sum * generation_quality[m].den

\* C16, amended: in the summary the mean rating of each rubric is the mean over
\* the ratings above 0 of the evaluated turns; a rating of 0 (parse failure,
\* failed judge call, or a 0 of the judge) is left out, and the mean is 0 when
\* no rating of the rubric is above 0.
C16_MeanOverPositiveRatings ==
    epc = "saved" =>
        \A m \in 1..Len(RUBRICS) :
            IF judged[m].pos > 0
            THEN /\ generation_quality[m].exc = "none"
                 /\ generation_quality[m].num * judged[m].pos
                       = judged[m].sum * generation_quality[m].den
            ELSE generation_quality[m] = Float(0, 1)

\* a rubric rated 0 on one turn and 2 on the other: the summary says 2, not 1
C16_Witness ==
    /\ epc = "saved"
    /\ judged[1] = [n |-> 2, pos |-> 1, sum |-> 2]
    /\ generation_quality[1] = Float(2, 1)

(* ------------------- BatchReplay.run, dialogue by dialogue ------------- *)
\* the dialogues of the input file: up to MaxTurns turns of any speakers
Dialogues ==
    {[j \in 1..Len(speakers) |-> RecordedTurn(j - 1, speakers[j])] :
        speakers \in SeqsUpTo(Speakers, MaxTurns)}

\* the two text deltas of a streamed response
DELTAS == << <<<<"delta", 1>>>>, <<<<"delta", 2>>>> >>

\* the id of the response to the turn at index j of dialogue i
ResponseId(i, j) == <<"resp", i, j>>

Retrieval(utterance) ==
    [op |-> "retrieve", input |-> utterance, instructions |-> <<>>,
     previous_response_id |-> NoId, response_id |-> NoId]

Generation(params, stream) ==
    [op |-> "generate", input |-> params.input, instructions |-> params.instructions,
     previous_response_id |-> params.previous_response_id,
     response_id |-> stream.response_id]

ReplayInit ==
    /\ config = 1
    /\ knowledge_base = <<>>
    /\ collection = <<>>
    /\ RagIdle
    /\ MetricsIdle
    /\ FormatIdle
    /\ JudgeIdle
    /\ EvalStart(0)
    /\ MoreIdle
    /\ \E n \in 0..MaxDialogues : ReplayStart(n)

\* the head of the for loop: the next dialogue is taken, the conversation reset
StartDialogue ==
    /\ rpc = "next_dialog"
    /\ dialog_i < n_dialogues
    /\ \E dialog \in Dialogues : conversation_history' = dialog
    /\ dialog_i' = dialog_i + 1
    /\ llm_client' = reset_conversation(llm_client)
    /\ dialog_turns' = <<>>
    /\ idx' = 0
    /\ calls' = <<>>
    /\ visited' = {}
    /\ rpc' = "walking"
    /\ UNCHANGED <<n_dialogues, results_appended>>
    /\ UNCHANGED <<ragVars, metricVars, fmtVars, judgeVars, evalVars, moreVars>>

\* one pass of the while loop on a user turn: retrieval, generation, the
\* TurnResult with its ground truth, and the step over the assistant turn
ReplayUserTurn ==
    /\ rpc = "walking"
    /\ idx < Len(conversation_history)
    /\ IsUserTurn(TurnAt(conversation_history, idx))
    /\ \E completed \in BOOLEAN :
        LET user_utterance == TurnAt(conversation_history, idx).utterance
            retrieved_snippets == RetrievedFor(user_utterance)
            params == RequestParams(llm_client, user_utterance,
                                    AugmentedPrompt(retrieved_snippets))
            stream == Stream(DELTAS, IF completed THEN ResponseId(dialog_i, idx) ELSE NoId)
        IN  /\ calls' = calls \o <<Retrieval(user_utterance), Generation(params, stream)>>
            /\ llm_client' = chat_stream(llm_client, user_utterance, stream)
            /\ dialog_turns' = Append(dialog_turns,
                                      TurnResult(conversation_history, idx,
                                                 Concat(stream.deltas)))
    /\ visited' = visited \cup {idx}
    /\ idx' = Advance(conversation_history, idx)
    /\ UNCHANGED <<rpc, n_dialogues, dialog_i, conversation_history, results_appended>>
    /\ UNCHANGED <<ragVars, metricVars, fmtVars, judgeVars, evalVars, moreVars>>

\* one pass of the while loop on a turn of another speaker
ReplayOtherTurn ==
    /\ rpc = "walking"
    /\ idx < Len(conversation_history)
    /\ ~IsUserTurn(TurnAt(conversation_history, idx))
    /\ visited' = visited \cup {idx}
    /\ idx' = Advance(conversation_history, idx)
    /\ UNCHANGED <<rpc, n_dialogues, dialog_i, conversation_history, results_appended,
                   dialog_turns, llm_client, calls>>
    /\ UNCHANGED <<ragVars, metricVars, fmtVars, judgeVars, evalVars, moreVars>>

\* the while loop is left: the dialogue's result is appended
EndDialogue ==
    /\ rpc = "walking"
    /\ idx >= Len(conversation_history)
    /\ results_appended' = results_appended + 1
    /\ rpc' = "next_dialog"
    /\ UNCHANGED <<n_dialogues, dialog_i, conversation_history, idx, dialog_turns,
                   llm_client, calls, visited>>
    /\ UNCHANGED <<ragVars, metricVars, fmtVars, judgeVars, evalVars, moreVars>>

\* the for loop is left: the replay record is written
SaveReport ==
    /\ rpc = "next_dialog"
    /\ dialog_i = n_dialogues
    /\ rpc' = "saved"
    /\ UNCHANGED <<n_dialogues, dialog_i, conversation_history, idx, dialog_turns,
                   results_appended, llm_client, calls, visited>>
    /\ UNCHANGED <<ragVars, metricVars, fmtVars, judgeVars, evalVars, moreVars>>

ReplayNext ==
    \/ StartDialogue
    \/ ReplayUserTurn
    \/ ReplayOtherTurn
    \/ EndDialogue
    \/ SaveReport

SpecReplay == ReplayInit /\ [][ReplayNext]_vars

\* run is a sequential program: it takes its next step as long as it has one
SpecReplayFair == SpecReplay /\ WF_vars(ReplayNext)

(* ===================== claims on BatchReplay.run ===================== *)
\* a dialogue is being walked or has been walked
InDialogue == dialog_i > 0

SpeakersOf(history) == [j \in 1..Len(history) |-> history[j].speaker]

\* the indexes (from 0) below n of the user turns of the dialogue
UserIndexesBelow(n) ==
    {j \in 0..(n - 1) : j < Len(conversation_history)
                         /\ conversation_history[j + 1].speaker = "user"}

ResultIndexes == {dialog_turns[n].turn_index : n \in 1..Len(dialog_turns)}

OneResultPerUserTurn ==
    InDialogue =>
        /\ idx <= Len(conversation_history)
        /\ rpc # "walking" => idx = Len(conversation_history)
        /\ ResultIndexes = UserIndexesBelow(idx)
        /\ \A n \in 1..Len(dialog_turns) :
              /\ dialog_turns[n].user_input
                    = conversation_history[dialog_turns[n].turn_index + 1].utterance
              /\ \A m \in 1..(n - 1) :
                    dialog_turns[m].turn_index < dialog_turns[n].turn_index

AssistantFollows(j) ==
    /\ j + 1 < Len(conversation_history)
    /\ conversation_history[j + 2].speaker = "assistant"

\* C18: a TurnResult carries ground_truth_response and ground_truth_snippets
\* exactly if the recorded turn right after its user turn is an assistant turn,
\* and they are that turn's utterance_ref and grounding_snippets; an assistant
\* turn is attached to at most one TurnResult and is skipped by the walk.
C18_GroundTruthFromNextAssistant ==
    InDialogue =>
        /\ \A n \in 1..Len(dialog_turns) :
              LET r == dialog_turns[n]
                  j == r.turn_index
              IN  /\ r.has_ground_truth <=> AssistantFollows(j)
                  /\ AssistantFollows(j) =>
                        /\ r.ground_truth_response = conversation_history[j + 2].utterance_ref
                        /\ r.ground_truth_snippets
                              = conversation_history[j + 2].grounding_snippets
                        /\ (j + 1) \notin visited
        /\ \A a \in 1..Len(conversation_history) :
              Cardinality({n \in 1..Len(dialog_turns) :
                              /\ dialog_turns[n].has_ground_truth
                              /\ dialog_turns[n].ground_truth_response
                                    = conversation_history[a].utterance_ref}) <= 1

\* a user turn followed by two assistant turns: the first is attached and
\* stepped over, the second is looked at and left alone
C18_Witness ==
    /\ rpc = "next_dialog"
    /\ SpeakersOf(conversation_history) = <<"user", "assistant", "assistant">>
    /\ Len(dialog_turns) = 1
    /\ dialog_turns[1].has_ground_truth
    /\ visited = {0, 2}

\* the utterances of the user turns with an index below n, in recorded order
RECURSIVE UserUtterancesBelow(_)
UserUtterancesBelow(n) ==
    IF n = 0 THEN <<>>
    ELSE UserUtterancesBelow(n - 1)
         \o (IF conversation_history[n].speaker = "user"
             THEN <<conversation_history[n].utterance>> ELSE <<>>)

\* C19: the retrieval calls and the generation requests of a dialogue are
\* exactly the utterances of its user turns in recorded order, one retrieval
\* followed by one generation request per user turn; no recorded assistant
\* utterance is ever sent to retrieval or to the conversational model.
C19_CallsAreUserUtterances ==
    InDialogue =>
        LET expected == UserUtterancesBelow(idx)
        IN  /\ Len(calls) = 2 * Len(expected)
            /\ \A n \in 1..Len(expected) :
                  /\ calls[2 * n - 1].op = "retrieve"
                  /\ calls[2 * n - 1].input = expected[n]
                  /\ calls[2 * n].op = "generate"
                  /\ calls[2 * n].input = expected[n]
            /\ \A c \in 1..Len(calls), a \in 1..Len(conversation_history) :
                  conversation_history[a].speaker = "assistant" =>
                      /\ calls[c].input # conversation_history[a].utterance
                      /\ calls[c].input # conversation_history[a].utterance_ref

\* assistant turns before and after the one user turn: one retrieval and one
\* generation request, both with the user's utterance
C19_Witness ==
    /\ rpc = "next_dialog"
    /\ SpeakersOf(conversation_history) = <<"assistant", "user", "assistant">>
    /\ Len(calls) = 2
    /\ calls[1].input = conversation_history[2].utterance
    /\ calls[2].input = conversation_history[2].utterance

SetMax(S) == CHOOSE x \in S : \A y \in S : y <= x

\* the id of the last response completed before call p of this dialogue
LastCompletedBefore(p) ==
    LET done == {q \in 1..(p - 1) : calls[q].op = "generate" /\ calls[q].response_id # NoId}
    IN  IF done = {} THEN NoId ELSE calls[SetMax(done)].response_id

\* C20: no conversational state leaks across dialogues: at the start of each
\* dialogue the client's message history is empty and its continuation token
\* unset, so the first generation request of a dialogue carries no token, and
\* each later request carries the token of the response of the same dialogue
\* that completed last.
C20_NoLeakAcrossDialogues ==
    InDialogue =>
        /\ (rpc = "walking" /\ idx = 0) => llm_client = NewClient
        /\ \A p \in 1..Len(calls) :
              calls[p].op = "generate" =>
                  calls[p].previous_response_id = LastCompletedBefore(p)
        /\ Len(llm_client.messages) = Len(calls)
        /\ llm_client.previous_response_id = LastCompletedBefore(Len(calls) + 1)

\* the second dialogue, three user turns: the first response completed, the
\* second did not, the third request carries the id of the first response
C20_Witness ==
    /\ dialog_i = 2
    /\ Len(calls) = 6
    /\ calls[2].previous_response_id = NoId
    /\ calls[2].response_id = ResponseId(2, 0)
    /\ calls[4].response_id = NoId
    /\ calls[6].previous_response_id = ResponseId(2, 0)

(* ========== the batch job: main, BatchReplay.__init__ and run ========== *)
\* the selectors of RAG_CONFIGS
RAG_CLI_KEYS == {"baseline", "crossencoder", "llm"}

RAG_CLI_KEY_TO_ID(key) ==
    CASE key = "baseline" -> 1
      [] key = "crossencoder" -> 2
      [] key = "llm" -> 3

\* the selectors a caller may give: the three of RAG_CONFIGS and another one
SelectorsGiven == RAG_CLI_KEYS \cup {"hybrid"}

\* RAG_CLI_KEY_TO_ID.get(rag_config_key, 1)
BatchReplayConfigId(key) == IF key \in RAG_CLI_KEYS THEN RAG_CLI_KEY_TO_ID(key) ELSE 1

\* self.messages.append({"role": "user", "content": content})
add_user_message(client, content) ==
    [client EXCEPT !.messages = Append(@, [role |-> "user", content |-> content])]

\* the client after chat(user_message, system_prompt, auto_add_messages): one
\* request that is not streamed; the history grows only with auto_add_messages
chat(client, user_message, response, auto_add_messages) ==
    [previous_response_id |->
         IF response.response_id # NoId THEN response.response_id
         ELSE client.previous_response_id,
     messages |->
         IF auto_add_messages
         THEN client.messages \o <<[role |-> "user", content |-> user_message],
                                   [role |-> "assistant", content |-> Concat(response.deltas)]>>
         ELSE client.messages]

\* the two LLMClient objects of a batch job: BatchReplay.llm_client and the
\* one RAGSystem.__init__ makes for configuration 3
Clients(orch, rr) == [orchestrator |-> orch, reranker |-> rr]

rerank_chat_on_orchestrator(objs, prompt, response) ==
    [objs EXCEPT !.orchestrator = chat(@, prompt, response, TRUE)]

\* response_text = self.llm_client.chat(..., auto_add_messages=False)
rerank_chat(objs, prompt, response) ==
    [objs EXCEPT !.reranker = chat(@, prompt, response, FALSE)]

RerankPrompt(utterance) == <<"rerank for">> \o utterance

RerankResponseId(i, j) == <<"rerank", i, j>>

\* the external calls of one user turn that may fail
RetrieveCalls(c) == IF c = 1 THEN {"embedding"} ELSE {"embedding", "rerank"}

MainInit ==
    /\ config = 1
    /\ knowledge_base = <<>>
    /\ collection = <<>>
    /\ RagIdle
    /\ MetricsIdle
    /\ FormatIdle
    /\ JudgeIdle
    /\ EvalStart(0)
    /\ StoreIdle
    /\ StreamIdle
    /\ SummaryIdle
    /\ entry \in {"main", "constructor"}
    /\ rag_config_key \in SelectorsGiven
    /\ rag_config_id = 0
    /\ input_exists \in BOOLEAN
    /\ printed = <<>>
    /\ exit_status = -1
    /\ error = "none"
    /\ rerank_client = NewClient
    /\ rerank_requests = <<>>
    /\ rpc = IF entry = "main" THEN "main" ELSE "construct"
    /\ n_dialogues \in 0..MaxDialogues
    /\ dialog_i = 0
    /\ conversation_history = <<>>
    /\ idx = 0
    /\ dialog_turns = <<>>
    /\ results_appended = 0
    /\ llm_client = NewClient
    /\ calls = <<>>
    /\ visited = {}

\* parser.parse_args(): a --config outside choices ends the process with
\* the usage message and status 2
ParseArgs ==
    /\ rpc = "main"
    /\ IF rag_config_key \in RAG_CLI_KEYS
       THEN /\ rpc' = "construct"
            /\ UNCHANGED <<printed, exit_status, error>>
       ELSE /\ rpc' = "exited"
            /\ printed' = Append(printed, "usage")
            /\ exit_status' = 2
            /\ error' = "usage"
    /\ UNCHANGED <<entry, rag_config_key, rag_config_id, input_exists, rerank_client,
                   rerank_requests>>
    /\ UNCHANGED <<n_dialogues, dialog_i, conversation_history, idx, dialog_turns,
                   results_appended, llm_client, calls, visited>>
    /\ UNCHANGED <<ragVars, metricVars, fmtVars, judgeVars, evalVars, restVars>>

\* BatchReplay.__init__: the selector is looked up, the conversational client
\* and the RAGSystem of that configuration are made
ConstructBatchReplay ==
    /\ rpc = "construct"
    /\ rag_config_id' = BatchReplayConfigId(rag_config_key)
    /\ config' = rag_config_id'
    /\ llm_client' = NewClient
    /\ rerank_client' = NewClient
    /\ rpc' = "load"
    /\ UNCHANGED <<entry, rag_config_key, input_exists, printed, exit_status, error,
                   rerank_requests>>
    /\ UNCHANGED <<n_dialogues, dialog_i, conversation_history, idx, dialog_turns,
                   results_appended, calls, visited>>
    /\ UNCHANGED <<knowledge_base, collection, pc, query, results, scores, response_text,
                   snippets>>
    /\ UNCHANGED <<metricVars, fmtVars, judgeVars, evalVars, restVars>>

\* an exception leaves run: main prints it and returns, so that the process
\* ends with status 0; a caller of the constructor gets the exception
Fails(e) ==
    /\ error' = e
    /\ IF entry = "main"
       THEN /\ printed' = Append(printed, "Error running batch replay")
            /\ exit_status' = 0
            /\ rpc' = "failed"
       ELSE /\ rpc' = "raised"
            /\ UNCHANGED <<printed, exit_status>>

\* load_dialogues at the head of run
LoadDialogues ==
    /\ rpc = "load"
    /\ IF input_exists
       THEN /\ rpc' = "next_dialog"
            /\ UNCHANGED <<printed, exit_status, error>>
       ELSE Fails("FileNotFoundError")
    /\ UNCHANGED <<entry, rag_config_key, rag_config_id, input_exists, rerank_client,
                   rerank_requests>>
    /\ UNCHANGED <<n_dialogues, dialog_i, conversation_history, idx, dialog_turns,
                   results_appended, llm_client, calls, visited>>
    /\ UNCHANGED <<ragVars, metricVars, fmtVars, judgeVars, evalVars, restVars>>

\* rag_system.retrieve(user_utterance) on a user turn: configuration 3 sends
\* one request to the reranking model on the client of the RAGSystem
MainRetrieve ==
    /\ rpc = "walking"
    /\ idx < Len(conversation_history)
    /\ IsUserTurn(TurnAt(conversation_history, idx))
    /\ LET user_utterance == TurnAt(conversation_history, idx).utterance
       IN  /\ calls' = Append(calls, Retrieval(user_utterance))
           /\ IF config = 3
              THEN \E completed \in BOOLEAN :
                    LET response == Stream(DELTAS, IF completed
                                                   THEN RerankResponseId(dialog_i, idx)
                                                   ELSE NoId)
                        objs == rerank_chat(Clients(llm_client, rerank_client),
                                            RerankPrompt(user_utterance), response)
                    IN  /\ llm_client' = objs.orchestrator
                        /\ rerank_client' = objs.reranker
                        /\ rerank_requests' = <<RerankPrompt(user_utterance)>>
              ELSE /\ rerank_requests' = <<>>
                   /\ UNCHANGED <<llm_client, rerank_client>>
    /\ rpc' = "retrieved"
    /\ UNCHANGED <<entry, rag_config_key, rag_config_id, input_exists, printed, exit_status,
                   error>>
    /\ UNCHANGED <<n_dialogues, dialog_i, conversation_history, idx, dialog_turns,
                   results_appended, visited>>
    /\ UNCHANGED <<ragVars, metricVars, fmtVars, judgeVars, evalVars, restVars>>

\* the embedding call or the reranking call of retrieve raises
MainRetrieveFails ==
    /\ rpc = "walking"
    /\ idx < Len(conversation_history)
    /\ IsUserTurn(TurnAt(conversation_history, idx))
    /\ \E failed \in RetrieveCalls(config) :
        /\ Fails(failed)
        /\ rerank_requests' =
              IF failed = "rerank" /\ config = 3
              THEN <<RerankPrompt(TurnAt(conversation_history, idx).utterance)>>
              ELSE <<>>
    /\ calls' = Append(calls, Retrieval(TurnAt(conversation_history, idx).utterance))
    /\ UNCHANGED <<entry, rag_config_key, rag_config_id, input_exists, rerank_client>>
    /\ UNCHANGED <<n_dialogues, dialog_i, conversation_history, idx, dialog_turns,
                   results_appended, llm_client, visited>>
    /\ UNCHANGED <<ragVars, metricVars, fmtVars, judgeVars, evalVars, restVars>>

\* the rest of the pass on a user turn: generation, the TurnResult, the step
MainGenerate ==
    /\ rpc = "retrieved"
    /\ \E completed \in BOOLEAN :
        LET user_utterance == TurnAt(conversation_history, idx).utterance
            params == RequestParams(llm_client, user_utterance,
                                    AugmentedPrompt(RetrievedFor(user_utterance)))
            stream == Stream(DELTAS, IF completed THEN ResponseId(dialog_i, idx) ELSE NoId)
        IN  /\ calls' = Append(calls, Generation(params, stream))
            /\ llm_client' = chat_stream(llm_client, user_utterance, stream)
            /\ dialog_turns' = Append(dialog_turns,
                                      TurnResult(conversation_history, idx,
                                                 Concat(stream.deltas)))
    /\ visited' = visited \cup {idx}
    /\ idx' = Advance(conversation_history, idx)
    /\ rpc' = "walking"
    /\ UNCHANGED <<n_dialogues, dialog_i, conversation_history, results_appended>>
    /\ UNCHANGED <<ragVars, metricVars, fmtVars, judgeVars, evalVars, moreVars>>

\* the generation request raises: chat_stream has added the user message
MainGenerateFails ==
    /\ rpc = "retrieved"
    /\ Fails("generation")
    /\ llm_client' = add_user_message(llm_client, TurnAt(conversation_history, idx).utterance)
    /\ UNCHANGED <<entry, rag_config_key, rag_config_id, input_exists, rerank_client,
                   rerank_requests>>
    /\ UNCHANGED <<n_dialogues, dialog_i, conversation_history, idx, dialog_turns,
                   results_appended, calls, visited>>
    /\ UNCHANGED <<ragVars, metricVars, fmtVars, judgeVars, evalVars, restVars>>

\* run has returned to main, which returns
MainReturn ==
    /\ rpc = "saved"
    /\ entry = "main"
    /\ exit_status = -1
    /\ exit_status' = 0
    /\ UNCHANGED <<entry, rag_config_key, rag_config_id, input_exists, printed, error,
                   rerank_client, rerank_requests>>
    /\ UNCHANGED <<replayVars, ragVars, metricVars, fmtVars, judgeVars, evalVars, restVars>>

MainNext ==
    \/ ParseArgs
    \/ ConstructBatchReplay
    \/ LoadDialogues
    \/ StartDialogue
    \/ MainRetrieve
    \/ MainRetrieveFails
    \/ MainGenerate
    \/ MainGenerateFails
    \/ ReplayOtherTurn
    \/ EndDialogue
    \/ SaveReport
    \/ MainReturn

SpecMain == MainInit /\ [][MainNext]_vars

(* ======================= claims on the batch job ======================= *)
\* one of the external calls of a dialogue has failed
CallFailed == error \in {"embedding", "rerank", "generation"}

\* C21: when an embedding, rerank or generation call fails while a dialogue is
\* replayed, only that dialogue is aborted: run goes on with the next dialogue
\* and the replay record is still written, so no such failure ends the run.
C21_CallFailureAbortsDialogueOnly ==
    CallFailed => rpc \notin {"failed", "raised"}

\* the job has got past the constructor of BatchReplay
Constructed == rag_config_id # 0

\* C22: an unknown strategy selector is fatal: the construction of the
\* orchestrator with it fails, and no retrieval or generation is performed
\* under any strategy for it.
C22_UnknownSelectorIsFatal ==
    rag_config_key \notin RAG_CLI_KEYS => ~Constructed /\ calls = <<>>

\* C25: an LLMRerank retrieve issues exactly one request to the reranking
\* model and leaves the ongoing dialogue untouched: the message history and
\* the continuation token of the orchestrator's conversational client are the
\* same after the retrieve call as before it.
C25_RerankLeavesDialogueUntouched ==
    [][(rpc = "walking" /\ rpc' = "retrieved" /\ config = 3) =>
          /\ Len(rerank_requests') = 1
          /\ llm_client'.messages = llm_client.messages
          /\ llm_client'.previous_response_id = llm_client.previous_response_id]_vars

\* an LLMRerank retrieve in the middle of a dialogue: the reranking client has
\* got the id of the reranking response, the conversational client still has
\* its two messages and the id of the first answer
C25_Witness ==
    /\ rpc = "retrieved"
    /\ config = 3
    /\ Len(rerank_requests) = 1
    /\ rerank_client.previous_response_id = RerankResponseId(1, idx)
    /\ rerank_client.messages = <<>>
    /\ Len(llm_client.messages) = 2
    /\ llm_client.previous_response_id = ResponseId(1, 0)

\* C23: a batch job whose input corpus file is missing halts with an error
\* message and a non-zero exit status, without replaying any dialogue and
\* without writing a result file.
C23_MissingInputHalts ==
    (entry = "main" /\ error = "FileNotFoundError") =>
        /\ printed # <<>>
        /\ exit_status > 0
        /\ dialog_i = 0
        /\ rpc # "saved"

(* ============ the vector store: RAGSystem._initialize_vector_db ======== *)
MaxInits == 5

\* the knowledge bases a store is built from
StoreKnowledgeBases == {KnowledgeBase(n) : n \in 1..SmallKB} \cup KnowledgeBases

\* the persisted collection: whether it exists and its entries
Store(exists, entries) == [exists |-> exists, entries |-> entries]

\* client.get_collection succeeds
collection_exists(store) == store.exists

\* the calls that build the store and may raise
BuildCalls == {"embedding", "add"}

\* the except branch: create_collection, _embed_texts, collection.add
build_collection(kb, failing) ==
    CASE failing = "embedding" ->
            [store |-> Store(TRUE, <<>>), embedded |-> 1, added |-> 0,
             returned |-> Raises("embedding")]
      [] failing = "add" ->
            [store |-> Store(TRUE, <<>>), embedded |-> 1, added |-> 1,
             returned |-> Raises("add")]
      [] OTHER ->
            [store |-> Store(TRUE, BuildMetadatas(kb)), embedded |-> 1, added |-> 1,
             returned |-> Value(BuildMetadatas(kb))]

initialize_vector_db_rebuilding(store, kb, failing) == build_collection(kb, failing)

\* _initialize_vector_db on the persisted store: the store after it, the
\* embedding and add calls it made, and the collection returned or the
\* exception raised.  failing is the call that raises if it is made, or "none".
initialize_vector_db(store, kb, failing) ==
    IF collection_exists(store)
    THEN [store |-> store, embedded |-> 0, added |-> 0, returned |-> Value(store.entries)]
    ELSE build_collection(kb, failing)

StoreInit ==
    /\ config \in {1, 2, 3}
    /\ knowledge_base \in StoreKnowledgeBases
    /\ collection = <<>>
    /\ RagIdle
    /\ MetricsIdle
    /\ FormatIdle
    /\ JudgeIdle
    /\ EvalStart(0)
    /\ ReplayStart(0)
    /\ MainIdle
    /\ StoreIdle
    /\ StreamIdle
    /\ SummaryIdle

\* RAGSystem.__init__ of one more process on the same backing path
InitializeVectorDb ==
    /\ inits < MaxInits
    /\ \E c \in {1, 2, 3}, failing \in BuildCalls \cup {"none"} :
        LET r == initialize_vector_db(Store(store_exists, store_entries), knowledge_base,
                                      failing)
        IN  /\ config' = c
            /\ store_exists' = r.store.exists
            /\ store_entries' = r.store.entries
            /\ embed_calls' = embed_calls + r.embedded
            /\ add_calls' = add_calls + r.added
            /\ IF r.returned.exc = "none"
               THEN spc' = "returned" /\ collection' = r.returned.value
               ELSE spc' = "raised" /\ collection' = <<>>
    /\ inits' = inits + 1
    /\ UNCHANGED <<knowledge_base, pc, query, results, scores, response_text, snippets>>
    /\ UNCHANGED <<metricVars, fmtVars, judgeVars, evalVars, replayVars, mainVars, streamVars,
                   summaryVars>>

StoreNext == InitializeVectorDb

SpecStore == StoreInit /\ [][StoreNext]_vars

(* ===================== claims on the vector store ====================== *)
\* C24: store build is idempotent: when a collection already exists at the
\* backing path, initialization reuses it and issues no embedding call and no
\* write to the collection; the knowledge base is embedded at most once over
\* any sequence of initializations.
C24_StoreBuildIdempotent ==
    /\ [](embed_calls <= 1)
    /\ [][(store_exists /\ inits' = inits + 1) =>
            /\ spc' = "returned"
            /\ collection' = store_entries
            /\ store_entries' = store_entries
            /\ store_exists'
            /\ embed_calls' = embed_calls
            /\ add_calls' = add_calls]_vars

\* the store was built by the first initialization and reused by two more
C24_Witness ==
    /\ inits = 3
    /\ spc = "returned"
    /\ embed_calls = 1
    /\ add_calls = 1
    /\ Len(store_entries) = Len(knowledge_base)
    /\ collection = store_entries

\* the ids of the entries of the collection an initialization returned
CollectionIds == [i \in 1..Len(collection) |-> IntOf(collection[i].id)]

\* C27: whenever store initialization returns a collection, that collection
\* holds exactly one entry for every knowledge-base snippet id, after any
\* sequence of initialization attempts, including one where an earlier attempt
\* created the collection and then failed during embedding.
C27_ReturnedStoreIsComplete ==
    spc = "returned" =>
        /\ Len(collection) = Len(knowledge_base)
        /\ \A i \in 1..Len(knowledge_base) :
              Cardinality({j \in 1..Len(collection) : CollectionIds[j] = knowledge_base[i].id}) = 1

(* ================= claims on the reranking strategies ================== *)
\* s is an entry of the initial similarity query, field by field
IsQueryResult(s) ==
    \E i \in 1..Len(results) :
        /\ Str(s.id) = results[i].id
        /\ s.topic = results[i].topic
        /\ s.title = results[i].title
        /\ s.content = results[i].content
        /\ s.source = results[i].source

\* s is a snippet of the knowledge base as it was loaded
IsKnowledgeBaseSnippet(s) == \E i \in 1..Len(knowledge_base) : knowledge_base[i] = s

\* C26: reranking never invents a snippet: under CrossEncoderRerank and
\* LLMRerank every snippet returned by retrieve is one of the at most
\* TOP_K_RETRIEVAL candidates of the initial similarity query, with its id,
\* topic, title, content and source unchanged, whatever the scores or the
\* response text of the reranking model.
C26_RerankNeverInvents ==
    (pc = "returned" /\ config \in {2, 3}) =>
        /\ Len(results) <= TOP_K_RETRIEVAL
        /\ \A n \in 1..Len(snippets) :
              /\ IsQueryResult(snippets[n])
              /\ IsKnowledgeBaseSnippet(snippets[n])

\* the response names 12, the id of no snippet, and 1, and the knowledge base
\* has one snippet more than the query returns
C26_Witness ==
    /\ pc = "returned"
    /\ config = 3
    /\ Len(knowledge_base) = TOP_K_RETRIEVAL + 1
    /\ Len(results) = TOP_K_RETRIEVAL
    /\ parse_llm_rerank_response(response_text) = <<12, 1>>
    /\ Len(snippets) = TOP_K_FINAL

(* ====================== claims on the range of nDCG ==================== *)
\* C28: calculate_ndcg_at_k returns a value in [0,1] for every retrieved list,
\* ground truth and k >= 1, including retrieved lists in which the same id
\* occurs more than once.
C28_NdcgInUnitInterval ==
    (mpc = "ndcg" /\ k >= 1) =>
        /\ ndcg.exc = "none"
        /\ ndcg.den > 0
        /\ 0 <= ndcg.num
        /\ ndcg.num <= ndcg.den

(* ================== LLMClient.chat_stream, event by event ============== *)
MaxEvents == 3

MaxStreamCalls == 2

\* the events of a stream: text deltas, the completion with the response id,
\* another event, and the failure of the stream
Event(ty, delta, id) == [type |-> ty, delta |-> delta, id |-> id]

Delta(n) == Event("response.output_text.delta", <<<<"delta", n>>>>, NoId)

Completed(id) == Event("response.completed", <<>>, id)

Created == Event("response.created", <<>>, NoId)

StreamError == Event("error", <<>>, NoId)

\* the streams the n-th call may get
EventStreams(n) ==
    SeqsUpTo({Delta(1), Delta(2), Completed(ResponseId(0, n)), Created, StreamError},
             MaxEvents)

\* self.messages.append({"role": "assistant", "content": content})
add_assistant_message(client, content) ==
    [client EXCEPT !.messages = Append(@, [role |-> "assistant", content |-> content])]

\* the for loop over the stream: full_text and response_id at its end, or the
\* exception that ended it
RECURSIVE ConsumeEvents(_, _, _)
ConsumeEvents(events, full_text, response_id) ==
    IF events = <<>>
    THEN [exc |-> "none", full_text |-> full_text, response_id |-> response_id]
    ELSE LET event == Head(events)
         IN  CASE event.type = "error" ->
                    [exc |-> "error", full_text |-> full_text, response_id |-> response_id]
               [] event.type = "response.output_text.delta" ->
                    ConsumeEvents(Tail(events), full_text \o event.delta, response_id)
               [] event.type = "response.completed" ->
                    ConsumeEvents(Tail(events), full_text, event.id)
               [] OTHER ->
                    ConsumeEvents(Tail(events), full_text, response_id)

\* chat_stream consumed to its end or to the exception: the client after it
\* and the exception, if any
chat_stream_events(client, user_message, events, auto_add_messages) ==
    LET started == IF auto_add_messages THEN add_user_message(client, user_message)
                   ELSE client
        r == ConsumeEvents(events, <<>>, NoId)
        continued == IF r.response_id # NoId
                     THEN [started EXCEPT !.previous_response_id = r.response_id]
                     ELSE started
    IN  IF r.exc # "none"
        THEN [exc |-> r.exc, client |-> started]
        ELSE [exc |-> "none",
              client |-> IF auto_add_messages
                         THEN add_assistant_message(continued, r.full_text)
                         ELSE continued]

UserMessages == {<<<<"utterance", 0>>>>, <<<<"utterance", 1>>>>}

StreamInit ==
    /\ config = 1
    /\ knowledge_base = <<>>
    /\ collection = <<>>
    /\ RagIdle
    /\ MetricsIdle
    /\ FormatIdle
    /\ JudgeIdle
    /\ EvalStart(0)
    /\ ReplayStart(0)
    /\ MainIdle
    /\ StoreIdle
    /\ StreamIdle
    /\ SummaryIdle

\* one call of chat_stream, consumed by its caller until it ends or raises
CallChatStream ==
    /\ cpc = "idle"
    /\ stream_calls < MaxStreamCalls
    /\ \E user_message \in UserMessages, events \in EventStreams(stream_calls + 1),
          auto_add_messages \in BOOLEAN :
        LET r == chat_stream_events(stream_client, user_message, events, auto_add_messages)
        IN  /\ stream_message' = user_message
            /\ stream_events' = events
            /\ auto_add' = auto_add_messages
            /\ stream_client' = r.client
            /\ cpc' = IF r.exc = "none" THEN "done" ELSE "failed"
    /\ client_before' = stream_client
    /\ stream_calls' = stream_calls + 1
    /\ UNCHANGED <<ragVars, metricVars, fmtVars, judgeVars, evalVars, replayVars, mainVars,
                   storeVars, summaryVars>>

\* the caller goes on with the same client
StreamReturn ==
    /\ cpc # "idle"
    /\ cpc' = "idle"
    /\ stream_message' = <<>>
    /\ stream_events' = <<>>
    /\ auto_add' = TRUE
    /\ client_before' = stream_client
    /\ UNCHANGED <<stream_client, stream_calls>>
    /\ UNCHANGED <<ragVars, metricVars, fmtVars, judgeVars, evalVars, replayVars, mainVars,
                   storeVars, summaryVars>>

StreamNext ==
    \/ CallChatStream
    \/ StreamReturn

SpecStream == StreamInit /\ [][StreamNext]_vars

(* ======================== claims on chat_stream ======================== *)
\* the deltas of the stream of the last call, in order
RECURSIVE DeltasOf(_)
DeltasOf(events) ==
    IF events = <<>> THEN <<>>
    ELSE (IF Head(events).type = "response.output_text.delta" THEN Head(events).delta
          ELSE <<>>) \o DeltasOf(Tail(events))

\* the stream of the last call holds a completion event
HasCompleted == \E i \in 1..Len(stream_events) : stream_events[i].type = "response.completed"

\* C29: chat_stream with auto_add_messages=True is all-or-nothing on the
\* conversation state: a fully consumed call appends the user message and one
\* assistant message equal to the deltas in order and sets the continuation
\* token to the completed response's id; a call whose stream fails before
\* completion leaves the message history and the continuation token as they
\* were before the call.
C29_ChatStreamAllOrNothing ==
    auto_add =>
        /\ cpc = "done" =>
              /\ stream_client.messages
                    = client_before.messages
                      \o <<[role |-> "user", content |-> stream_message],
                           [role |-> "assistant", content |-> DeltasOf(stream_events)]>>
              /\ HasCompleted =>
                    stream_client.previous_response_id = ResponseId(0, stream_calls)
        /\ cpc = "failed" =>
              /\ stream_client.messages = client_before.messages
              /\ stream_client.previous_response_id = client_before.previous_response_id

(* ======= process_batch_file: the retrieval metrics and their means ===== *)
MaxRecordTurns == 2

RecordedResult(ret, key, gt) ==
    [retrieved_snippets |-> [i \in 1..Len(ret) |-> [id |-> ret[i]]], gt_key |-> key,
     ground_truth_snippets |-> [i \in 1..Len(gt) |-> [id |-> gt[i]]]]

\* the TurnResults a replay record is made of here: without ground truth
\* (missing key, null, empty list), with a hit at rank 1 or 2, a miss, half of
\* the ground truth found, a repeated id, nothing retrieved
SummaryTurns ==
    {RecordedResult(<<1, 2>>, "missing", <<>>),
     RecordedResult(<<1, 2>>, "null", <<>>),
     RecordedResult(<<1, 2>>, "list", <<>>),
     RecordedResult(<<1, 2>>, "list", <<1>>),
     RecordedResult(<<2, 1>>, "list", <<1>>),
     RecordedResult(<<2>>, "list", <<1>>),
     RecordedResult(<<1>>, "list", <<1, 2>>),
     RecordedResult(<<1, 1>>, "list", <<1>>),
     RecordedResult(<<>>, "list", <<1>>)}

total_append_positive(total, x) == IF x.num > 0 THEN Append(total, x) ELSE total

\* total_recall.append(rec4), total_mrr.append(mrr), total_ndcg.append(ndcg4)
total_append(total, x) == Append(total, x)

\* mean(total) if total else 0: the arithmetic mean of the terms, or the int 0
MeanOfTotal(total) ==
    IF total # <<>> THEN [kind |-> "mean", terms |-> total]
    ELSE [kind |-> "zero", terms |-> <<>>]

SummaryInit ==
    /\ config = 1
    /\ knowledge_base = <<>>
    /\ collection = <<>>
    /\ RagIdle
    /\ MetricsIdle
    /\ FormatIdle
    /\ JudgeIdle
    /\ EvalStart(0)
    /\ ReplayStart(0)
    /\ MainIdle
    /\ StoreIdle
    /\ StreamIdle
    /\ sum_pc = "scoring"
    /\ record_turns \in SeqsUpTo(SummaryTurns, MaxRecordTurns)
    /\ scored = 0
    /\ total_recall = <<>>
    /\ total_mrr = <<>>
    /\ total_ndcg = <<>>
    /\ summary_retrieval = NoSummary

\* one pass of the loop over the turns: the three metrics are appended, then
\* the rubric loop runs and either ends or raises
ScoreRecordTurn ==
    /\ sum_pc = "scoring"
    /\ scored < Len(record_turns)
    /\ LET t == record_turns[scored + 1]
           ret == t.retrieved_snippets
           gt == GetGroundTruth(t)
       IN  /\ total_recall' = total_append(total_recall, calculate_recall_at_k(ret, gt, EVAL_K))
           /\ total_mrr' = total_append(total_mrr, calculate_mrr(ret, gt))
           /\ total_ndcg' = total_append(total_ndcg, calculate_ndcg_at_k(ret, gt, EVAL_K))
    /\ \E rubrics_raise \in BOOLEAN :
          sum_pc' = IF rubrics_raise THEN "aborted" ELSE "scoring"
    /\ scored' = scored + 1
    /\ UNCHANGED <<record_turns, summary_retrieval>>
    /\ UNCHANGED <<ragVars, metricVars, fmtVars, judgeVars, evalVars, replayVars, mainVars,
                   storeVars, streamVars>>

\* the loops are left: the summary is made and written
SaveSummary ==
    /\ sum_pc = "scoring"
    /\ scored = Len(record_turns)
    /\ summary_retrieval' = [mean_recall_at_4 |-> MeanOfTotal(total_recall),
                             mean_mrr |-> MeanOfTotal(total_mrr),
                             mean_ndcg_at_4 |-> MeanOfTotal(total_ndcg)]
    /\ sum_pc' = "saved"
    /\ UNCHANGED <<record_turns, scored, total_recall, total_mrr, total_ndcg>>
    /\ UNCHANGED <<ragVars, metricVars, fmtVars, judgeVars, evalVars, replayVars, mainVars,
                   storeVars, streamVars>>

SummaryNext ==
    \/ ScoreRecordTurn
    \/ SaveSummary

SpecSummary == SummaryInit /\ [][SummaryNext]_vars

(* ================== claims on the means of the summary ================= *)
\* the turn has no ground truth: the key is missing, null or an empty list
WithoutGroundTruth(t) == t.gt_key # "list" \/ t.ground_truth_snippets = <<>>

\* the mean of one term per turn of the record, in order, or 0 without turns
MeanOverTurns(terms) ==
    IF record_turns = <<>> THEN [kind |-> "zero", terms |-> <<>>]
    ELSE [kind |-> "mean", terms |-> terms]

RecallOfTurn(t) == calculate_recall_at_k(t.retrieved_snippets, GetGroundTruth(t), EVAL_K)

MrrOfTurn(t) == calculate_mrr(t.retrieved_snippets, GetGroundTruth(t))

NdcgOfTurn(t) == calculate_ndcg_at_k(t.retrieved_snippets, GetGroundTruth(t), EVAL_K)

\* C30: mean_recall_at_4, mean_mrr and mean_ndcg_at_4 of the summary are each
\* the arithmetic mean over all TurnResults of the replay record, computed
\* only after every turn has been scored: a TurnResult without ground truth
\* contributes 0.0 to each mean, and the means are 0 when the record has no turns.
C30_MeansOverAllTurns ==
    /\ summary_retrieval # NoSummary => sum_pc = "saved" /\ scored = Len(record_turns)
    /\ sum_pc = "saved" =>
          /\ summary_retrieval.mean_recall_at_4
                = MeanOverTurns([n \in 1..Len(record_turns) |-> RecallOfTurn(record_turns[n])])
          /\ summary_retrieval.mean_mrr
                = MeanOverTurns([n \in 1..Len(record_turns) |-> MrrOfTurn(record_turns[n])])
          /\ summary_retrieval.mean_ndcg_at_4
                = MeanOverTurns([n \in 1..Len(record_turns) |-> NdcgOfTurn(record_turns[n])])
          /\ \A n \in 1..Len(record_turns) :
                WithoutGroundTruth(record_turns[n]) =>
                    /\ summary_retrieval.mean_recall_at_4.terms[n] = Float(0, 1)
                    /\ summary_retrieval.mean_mrr.terms[n] = Float(0, 1)
                    /\ summary_retrieval.mean_ndcg_at_4.terms[n] = Float(0, 1)

\* a record of a turn without ground truth and a turn with a hit at rank 1:
\* both are terms of the means, the first as 0.0
C30_Witness ==
    /\ sum_pc = "saved"
    /\ record_turns = <<RecordedResult(<<1, 2>>, "null", <<>>),
                        RecordedResult(<<1, 2>>, "list", <<1>>)>>
    /\ summary_retrieval.mean_recall_at_4.terms = <<Float(0, 1), Float(1, 1)>>
    /\ summary_retrieval.mean_mrr.terms = <<Float(0, 1), Float(1, 1)>>

\* the record without turns: every mean is 0
C30_WitnessEmpty ==
    /\ sum_pc = "saved"
    /\ record_turns = <<>>
    /\ summary_retrieval.mean_ndcg_at_4 = [kind |-> "zero", terms |-> <<>>]

====
